---- MODULE Spec2Model ----
(***************************************************************************)
(* The Ark evaluator (data model, compiled node tree, interpreter) as a    *)
(* small-step state machine.                                               *)
(*                                                                         *)
(* Every eval method of the interpreter is an async function.  One action  *)
(* of this module is one eval method; its disjuncts are the stretches of   *)
(* the method between two awaits.  The pending awaits (the host's chain of *)
(* suspended async calls) are the sequence kont, innermost first.          *)
(***************************************************************************)
EXTENDS Integers, Sequences, FiniteSets, TLC

VARIABLES
  prog,     \* the compiled tree handed to ArkState.run (an input)
  ctl,      \* what the evaluator does next: eval / evalRef a node, or
            \* deliver a value ("ret") or an exception ("throw") to Head(kont)
  kont,     \* the suspended async calls, innermost first
  frames,   \* the ArkFrame objects: [locals, captures], each a sequence of refs
  valRefs,  \* the ArkValRef cells: cell id -> stored value
  objects,  \* the ArkObject objects: object id -> properties (name -> value)
  \* the intern table of the scalars and an ArkMap, under the host's collector
  heap,     \* the ArkConcreteVal and ArkList objects ever made: id -> object
  intern,   \* ConcreteInterned.intern: raw value -> id of the WeakRef's target
  pending,  \* the collected targets whose FinalizationRegistry callback has yet to run
  held,     \* the objects the running program holds in its variables
  map,      \* ArkMap.map: key object id -> value object id (keys by identity)
  lastOp,   \* the ArkMap get or has just made, with its result
  \* ArkList and ArkStringVal objects and the callables their iter returns
  lists,    \* the ArkList objects: id -> this.list
  maps,     \* the ArkMap objects that are iterated: id -> the entries of this.map
  gens,     \* the callables returned by iter: the generator each one wraps
  \* the typed nodes of compiled code, as their constructors make them
  nodes,    \* the nodes constructed so far
  lastNew,  \* the constructor call made last, with its outcome
  registry, \* ArkGenericType.registry: a host Map, as its set of entries
  generics, \* the ArkGenericType objects ever made: id -> object
  ofCalls,  \* the calls of ArkGenericType.of made so far, with their results
  \* launch and await under the host's single cooperative scheduler
  units,    \* the units of work: unit 1 is the run, the others were launched
  running,  \* the unit that has control, 0 while the scheduler chooses
  log,      \* the effects made so far, in the order they happened
  \* ArkState.run of the first interpreter: link, then eval
  compiledVal, \* the CompiledArk handed to run: [val, freeVars]
  env,      \* the Namespace handed to run: name -> value
  symrefs,  \* the SymRef objects of the compiled value: id -> its ref
  run,      \* where ArkState.run is, and what it has evaluated
  \* the stacks of the first interpreter and the evaluation on them
  arrays,   \* the frame arrays (T[]) ever made: id -> elements
  refCells, \* the ValRef objects ever made: id -> this.val
  stacks,   \* the Stack objects ever made: id -> this.stack, the ids of its frames
  stackOp,  \* the operation on a stack made last, and the writes made so far
  arkStack, \* ark.stack: the id of the Stack the evaluation is on
  ictl,     \* what the first interpreter does next
  ikont     \* the calls of eval that wait for a result, innermost first

evalVars == <<prog, ctl, kont, frames, valRefs, objects>>
internVars == <<heap, intern, pending, held, map, lastOp>>
iterVars == <<lists, maps, gens>>
typeVars == <<nodes, lastNew, registry, generics, ofCalls>>
launchVars == <<units, running, log>>
stackVars == <<arrays, refCells, stacks, stackOp, arkStack, ictl, ikont>>
linkVars == <<compiledVal, env, symrefs, run, stackVars>>

vars == <<evalVars, internVars, iterVars, typeVars, launchVars, linkVars>>

-----------------------------------------------------------------------------
(* Bounds of the model.                                                    *)

\* the most ArkValRef cells a run may allocate
MaxRefs == 8
\* the most ArkFrame objects a run may create
MaxFrames == 5
\* the most ArkObject objects a run may create
MaxObjects == 2
\* the most scalar and list objects the program may construct under the collector
MaxHeap == 4
\* the longest list the program builds under the collector
MaxListLen == 1
\* the most values the program holds at a time under the collector
MaxHeld == 2
\* the most entries of the ArkMap
MaxMapSize == 1
\* the longest ArkList and the longest string that is iterated
MaxLen == 2
\* the most callables obtained from iter
MaxGens == 2
\* the most invocations of one callable obtained from iter
MaxCalls == 4

-----------------------------------------------------------------------------
(* Values.  In the evaluator a scalar is its class and its raw value.      *)

ArkUndefined == [t |-> "ArkUndefined"]
ArkNull == [t |-> "ArkNullVal"]
ArkBoolean(b) == [t |-> "ArkBooleanVal", b |-> b]
ArkNumber(n) == [t |-> "ArkNumberVal", n |-> n]
ArkString(s) == [t |-> "ArkStringVal", s |-> s]
ArkObject(id) == [t |-> "ArkObject", id |-> id]
ArkClosure(params, captures, body) ==
  [t |-> "ArkClosure", params |-> params, captures |-> captures, body |-> body]

\* val instanceof ArkCallable
IsArkCallable(val) == val.t = "ArkClosure"

\* val instanceof ArkAbstractObjectBase
IsArkAbstractObjectBase(val) ==
  val.t \in {"ArkObject", "ArkNullVal", "ArkBooleanVal", "ArkNumberVal", "ArkStringVal"}

\* Truthiness of toJs(val), the host form of a value.
toJs(val) ==
  CASE val.t = "ArkNullVal" -> FALSE
    [] val.t = "ArkBooleanVal" -> val.b
    [] val.t = "ArkNumberVal" -> val.n # 0
    [] val.t = "ArkStringVal" -> val.s # ""
    [] OTHER -> TRUE

\* References
ArkValRef(id) == [r |-> "ArkValRef", id |-> id]
ArkPropertyRef(obj, prop) == [r |-> "ArkPropertyRef", obj |-> obj, prop |-> prop]

\* Exceptions: the control signals and the runtime error
ArkBreakException(val) == [ty |-> "ArkBreakException", val |-> val, message |-> "", detail |-> ""]
ArkContinueException == [ty |-> "ArkContinueException", val |-> ArkNull, message |-> "", detail |-> ""]
ArkReturnException(val) == [ty |-> "ArkReturnException", val |-> val, message |-> "", detail |-> ""]
ArkRuntimeError(message, detail) ==
  [ty |-> "ArkRuntimeError", val |-> ArkNull, message |-> message, detail |-> detail]

\* e instanceof ArkNonLocalReturn
IsArkNonLocalReturn(e) ==
  e.ty \in {"ArkBreakException", "ArkContinueException", "ArkReturnException"}

-----------------------------------------------------------------------------
(* Compiled code: one record shape per ArkExp subclass.  Indices of        *)
(* ArkLocal and ArkCapture are zero-based, as in the source.               *)

ArkLiteral(val) == [k |-> "ArkLiteral", val |-> val]
ArkLocal(index) == [k |-> "ArkLocal", index |-> index]
ArkCapture(index) == [k |-> "ArkCapture", index |-> index]
ArkProperty(obj, prop) == [k |-> "ArkProperty", obj |-> obj, prop |-> prop]
ArkSet(lexp, exp) == [k |-> "ArkSet", lexp |-> lexp, exp |-> exp]
ArkFn(params, capturedVars, body) ==
  [k |-> "ArkFn", params |-> params, capturedVars |-> capturedVars, body |-> body]
ArkCall(fn, args) == [k |-> "ArkCall", fn |-> fn, args |-> args]
ArkObjectLiteral(properties) == [k |-> "ArkObjectLiteral", properties |-> properties]
ArkLet(boundVars, body) == [k |-> "ArkLet", boundVars |-> boundVars, body |-> body]
ArkSequence(exps) == [k |-> "ArkSequence", exps |-> exps]
ArkIf(cond, thenExp, elseExp) ==
  [k |-> "ArkIf", cond |-> cond, thenExp |-> thenExp, elseExp |-> elseExp]
ArkAnd(left, right) == [k |-> "ArkAnd", left |-> left, right |-> right]
ArkOr(left, right) == [k |-> "ArkOr", left |-> left, right |-> right]
ArkLoop(body) == [k |-> "ArkLoop", body |-> body]
ArkBreak(exp) == [k |-> "ArkBreak", exp |-> exp]
ArkContinue == [k |-> "ArkContinue"]
ArkReturn(exp) == [k |-> "ArkReturn", exp |-> exp]

\* the absent elseExp of an ArkIf
NoExp == [k |-> "undefined"]

IsArkLexp(node) == node.k \in {"ArkLocal", "ArkCapture", "ArkProperty"}

-----------------------------------------------------------------------------
(* Control states and suspended calls.                                     *)

Eval(node, ark) == [m |-> "eval", node |-> node, ark |-> ark]
EvalRef(node, ark) == [m |-> "evalRef", node |-> node, ark |-> ark]
Call(fn, ark) == [m |-> "call", fn |-> fn, ark |-> ark]
Ret(val) == [m |-> "ret", val |-> val]
Throw(exc) == [m |-> "throw", exc |-> exc]

Evaluating(kind) == ctl.m = "eval" /\ ctl.node.k = kind
EvaluatingRef(kind) == ctl.m = "evalRef" /\ ctl.node.k = kind
Returning(kind) == ctl.m = "ret" /\ kont # <<>> /\ Head(kont).k = kind
Throwing(kind) == ctl.m = "throw" /\ kont # <<>> /\ Head(kont).k = kind

\* ArkState.run has returned a value / has failed
Done == ctl.m = "ret" /\ kont = <<>>
Failed == ctl.m = "throw" /\ kont = <<>>

-----------------------------------------------------------------------------
(* References.                                                             *)

\* ArkObjectBase.get with Null for an absent property
ArkObjectBase_get_null(obj, prop) ==
  IF prop \in DOMAIN objects[obj.id] THEN objects[obj.id][prop] ELSE ArkNull

\* ArkObjectBase.get: this.properties.get(prop) ?? ArkUndefined
ArkObjectBase_get(obj, prop) ==
  IF prop \in DOMAIN objects[obj.id] THEN objects[obj.id][prop] ELSE ArkUndefined

\* ArkObjectBase.set: the properties of every object after set(prop, val)
ArkObjectBase_set(obj, prop, val) ==
  [objects EXCEPT ![obj.id] = (prop :> val) @@ @]

\* ArkValRef.get / ArkPropertyRef.get: the value, or the exception thrown
ArkRef_get(ref) ==
  IF ref.r = "ArkValRef"
  THEN [ok |-> TRUE, val |-> valRefs[ref.id]]
  ELSE LET val == ArkObjectBase_get(ref.obj, ref.prop)
       IN IF val = ArkUndefined
          THEN [ok |-> FALSE, exc |-> ArkRuntimeError("Invalid property", ref.prop)]
          ELSE [ok |-> TRUE, val |-> val]

\* ArkValRef.set / ArkPropertyRef.set, as the cells and the objects after it
ArkRef_set_valRefs(ref, val) ==
  IF ref.r = "ArkValRef" THEN [valRefs EXCEPT ![ref.id] = val] ELSE valRefs

ArkRef_set_objects(ref, val) ==
  IF ref.r = "ArkPropertyRef" THEN ArkObjectBase_set(ref.obj, ref.prop, val) ELSE objects

\* makeLocals that binds Null where an argument is missing
makeLocals_null(names, vals) ==
  [i \in 1..(IF Len(vals) > Len(names) THEN Len(vals) ELSE Len(names)) |->
     IF i <= Len(vals) THEN vals[i] ELSE ArkNull]

\* makeLocals: the values of the fresh ArkValRef cells, one per name, and one
\* more per value beyond the names
makeLocals(names, vals) ==
  [i \in 1..(IF Len(vals) > Len(names) THEN Len(vals) ELSE Len(names)) |->
     IF i <= Len(vals) THEN vals[i] ELSE ArkUndefined]

\* the refs of n cells allocated after the existing ones
NewRefs(n) == [i \in 1..n |-> ArkValRef(Len(valRefs) + i)]

\* ArkState.push / ArkState.pop on frame ark
ArkState_push(ark, items) == [frames EXCEPT ![ark].locals = @ \o items]

ArkState_pop(ark, nItems) ==
  [frames EXCEPT ![ark].locals =
     SubSeq(@, 1, IF Len(@) > nItems THEN Len(@) - nItems ELSE 0)]

-----------------------------------------------------------------------------
(* The eval methods.                                                       *)

ArkLiteral_eval ==
  /\ Evaluating("ArkLiteral")
  /\ ctl' = Ret(ctl.node.val)
  /\ UNCHANGED <<internVars, iterVars, typeVars, launchVars, linkVars, prog, kont, frames, valRefs, objects>>

\* ArkLexp.eval: (await this.evalRef(ark)).get(ark)
ArkLexp_eval ==
  \/ /\ ctl.m = "eval" /\ IsArkLexp(ctl.node)
     /\ ctl' = EvalRef(ctl.node, ctl.ark)
     /\ kont' = <<[k |-> "ArkLexp.eval"]>> \o kont
     /\ UNCHANGED <<internVars, iterVars, typeVars, launchVars, linkVars, prog, frames, valRefs, objects>>
  \/ /\ Returning("ArkLexp.eval")
     /\ LET got == ArkRef_get(ctl.val)
        IN ctl' = IF got.ok THEN Ret(got.val) ELSE Throw(got.exc)
     /\ kont' = Tail(kont)
     /\ UNCHANGED <<internVars, iterVars, typeVars, launchVars, linkVars, prog, frames, valRefs, objects>>

ArkLocal_evalRef ==
  /\ EvaluatingRef("ArkLocal")
  /\ ctl' = Ret(frames[ctl.ark].locals[ctl.node.index + 1])
  /\ UNCHANGED <<internVars, iterVars, typeVars, launchVars, linkVars, prog, kont, frames, valRefs, objects>>

ArkCapture_evalRef ==
  /\ EvaluatingRef("ArkCapture")
  /\ ctl' = Ret(frames[ctl.ark].captures[ctl.node.index + 1])
  /\ UNCHANGED <<internVars, iterVars, typeVars, launchVars, linkVars, prog, kont, frames, valRefs, objects>>

ArkProperty_evalRef ==
  \/ /\ EvaluatingRef("ArkProperty")
     /\ ctl' = Eval(ctl.node.obj, ctl.ark)
     /\ kont' = <<[k |-> "ArkProperty.evalRef", node |-> ctl.node]>> \o kont
     /\ UNCHANGED <<internVars, iterVars, typeVars, launchVars, linkVars, prog, frames, valRefs, objects>>
  \/ /\ Returning("ArkProperty.evalRef")
     /\ ctl' = IF IsArkAbstractObjectBase(ctl.val)
               THEN Ret(ArkPropertyRef(ctl.val, Head(kont).node.prop))
               ELSE Throw(ArkRuntimeError("Attempt to read property of non-object", ""))
     /\ kont' = Tail(kont)
     /\ UNCHANGED <<internVars, iterVars, typeVars, launchVars, linkVars, prog, frames, valRefs, objects>>

\* ArkSet_guard with the comparison of the variants inverted
ArkSet_guard_inverted(oldVal, res) ==
  /\ oldVal # ArkUndefined
  /\ oldVal.t # "ArkNullVal"
  /\ res.t = oldVal.t

\* ArkSet_guard that lets a new value of Null through
ArkSet_guard_nullNew(oldVal, res) ==
  /\ oldVal # ArkUndefined
  /\ oldVal.t # "ArkNullVal"
  /\ res.t # "ArkNullVal"
  /\ res.t # oldVal.t

\* ArkSet_guard that exempts only an old value of Undefined
ArkSet_guard_strict(oldVal, res) ==
  /\ oldVal # ArkUndefined
  /\ res.t # oldVal.t

\* The assignment guard of ArkSet.eval: the assignment is refused
ArkSet_guard(oldVal, res) ==
  /\ oldVal # ArkUndefined
  /\ oldVal.t # "ArkNullVal"
  /\ res.t # oldVal.t

ArkSet_eval ==
  \/ /\ Evaluating("ArkSet")
     /\ ctl' = EvalRef(ctl.node.lexp, ctl.ark)
     /\ kont' = <<[k |-> "ArkSet.lexp", node |-> ctl.node, ark |-> ctl.ark]>> \o kont
     /\ UNCHANGED <<internVars, iterVars, typeVars, launchVars, linkVars, prog, frames, valRefs, objects>>
  \/ /\ Returning("ArkSet.lexp")
     /\ ctl' = Eval(Head(kont).node.exp, Head(kont).ark)
     /\ kont' = <<[k |-> "ArkSet.exp", ref |-> ctl.val]>> \o Tail(kont)
     /\ UNCHANGED <<internVars, iterVars, typeVars, launchVars, linkVars, prog, frames, valRefs, objects>>
  \/ /\ Returning("ArkSet.exp")
     /\ LET ref == Head(kont).ref
            res == ctl.val
            old == ArkRef_get(ref)
        IN IF ~old.ok
           THEN /\ ctl' = Throw(old.exc)
                /\ UNCHANGED <<valRefs, objects>>
           ELSE IF ArkSet_guard(old.val, res)
           THEN /\ ctl' = Throw(ArkRuntimeError("Assignment to different type", ""))
                /\ UNCHANGED <<valRefs, objects>>
           ELSE /\ ctl' = Ret(res)
                /\ valRefs' = ArkRef_set_valRefs(ref, res)
                /\ objects' = ArkRef_set_objects(ref, res)
     /\ kont' = Tail(kont)
     /\ UNCHANGED <<internVars, iterVars, typeVars, launchVars, linkVars, prog, frames>>

\* the reference an ArkLocal or ArkCapture of capturedVars evaluates to
capturedRef(exp, ark) ==
  IF exp.k = "ArkLocal"
  THEN frames[ark].locals[exp.index + 1]
  ELSE frames[ark].captures[exp.index + 1]

\* ArkFn.eval capturing the values: each capture is a fresh cell holding a copy
ArkFn_eval_byValue ==
  /\ Evaluating("ArkFn")
  /\ LET vals == [i \in 1..Len(ctl.node.capturedVars) |->
                    ArkRef_get(capturedRef(ctl.node.capturedVars[i], ctl.ark)).val]
     IN /\ valRefs' = valRefs \o vals
        /\ ctl' = Ret(ArkClosure(ctl.node.params, NewRefs(Len(vals)), ctl.node.body))
  /\ UNCHANGED <<internVars, iterVars, typeVars, launchVars, linkVars, prog, kont, frames, objects>>

ArkFn_eval ==
  /\ Evaluating("ArkFn")
  /\ LET captures == [i \in 1..Len(ctl.node.capturedVars) |->
                        capturedRef(ctl.node.capturedVars[i], ctl.ark)]
     IN ctl' = Ret(ArkClosure(ctl.node.params, captures, ctl.node.body))
  /\ UNCHANGED <<internVars, iterVars, typeVars, launchVars, linkVars, prog, kont, frames, valRefs, objects>>

\* ArkCall.eval that binds the arguments in the frame of the caller and runs
\* the callee there
ArkCall_args_sameFrame(node, ark, fnVal, evaluatedArgs, ks) ==
  IF Len(evaluatedArgs) < Len(node.args)
  THEN /\ ctl' = Eval(node.args[Len(evaluatedArgs) + 1], ark)
       /\ kont' = <<[k |-> "ArkCall.args", node |-> node, ark |-> ark,
                     fnVal |-> fnVal, evaluatedArgs |-> evaluatedArgs]>> \o ks
       /\ UNCHANGED <<frames, valRefs>>
  ELSE LET locals == makeLocals(fnVal.params, evaluatedArgs)
       IN /\ Len(valRefs) + Len(locals) <= MaxRefs
          /\ valRefs' = valRefs \o locals
          /\ frames' = ArkState_push(ark, NewRefs(Len(locals)))
          /\ ctl' = Call(fnVal, ark)
          /\ kont' = ks

\* ArkCall.eval that takes the arguments from the right
ArkCall_args_rightToLeft(node, ark, fnVal, evaluatedArgs, ks) ==
  IF Len(evaluatedArgs) < Len(node.args)
  THEN /\ ctl' = Eval(node.args[Len(node.args) - Len(evaluatedArgs)], ark)
       /\ kont' = <<[k |-> "ArkCall.args", node |-> node, ark |-> ark,
                     fnVal |-> fnVal, evaluatedArgs |-> evaluatedArgs]>> \o ks
       /\ UNCHANGED <<frames, valRefs>>
  ELSE LET locals == makeLocals(fnVal.params, evaluatedArgs)
       IN /\ Len(valRefs) + Len(locals) <= MaxRefs
          /\ Len(frames) < MaxFrames
          /\ valRefs' = valRefs \o locals
          /\ frames' = Append(frames, [locals |-> NewRefs(Len(locals)),
                                       captures |-> fnVal.captures])
          /\ ctl' = Call(fnVal, Len(frames) + 1)
          /\ kont' = ks

\* ArkCall.eval once the callee is known: the next argument, or the call
ArkCall_args(node, ark, fnVal, evaluatedArgs, ks) ==
  IF Len(evaluatedArgs) < Len(node.args)
  THEN /\ ctl' = Eval(node.args[Len(evaluatedArgs) + 1], ark)
       /\ kont' = <<[k |-> "ArkCall.args", node |-> node, ark |-> ark,
                     fnVal |-> fnVal, evaluatedArgs |-> evaluatedArgs]>> \o ks
       /\ UNCHANGED <<frames, valRefs>>
  ELSE LET locals == makeLocals(fnVal.params, evaluatedArgs)
       IN /\ Len(valRefs) + Len(locals) <= MaxRefs
          /\ Len(frames) < MaxFrames
          /\ valRefs' = valRefs \o locals
          /\ frames' = Append(frames, [locals |-> NewRefs(Len(locals)),
                                       captures |-> fnVal.captures])
          /\ ctl' = Call(fnVal, Len(frames) + 1)
          /\ kont' = ks

ArkCall_eval ==
  \/ /\ Evaluating("ArkCall")
     /\ ctl' = Eval(ctl.node.fn, ctl.ark)
     /\ kont' = <<[k |-> "ArkCall.fn", node |-> ctl.node, ark |-> ctl.ark]>> \o kont
     /\ UNCHANGED <<internVars, iterVars, typeVars, launchVars, linkVars, prog, frames, valRefs, objects>>
  \/ /\ Returning("ArkCall.fn")
     /\ IF ~IsArkCallable(ctl.val)
        THEN /\ ctl' = Throw(ArkRuntimeError("Invalid call", ""))
             /\ kont' = Tail(kont)
             /\ UNCHANGED <<frames, valRefs>>
        ELSE ArkCall_args(Head(kont).node, Head(kont).ark, ctl.val, <<>>, Tail(kont))
     /\ UNCHANGED <<internVars, iterVars, typeVars, launchVars, linkVars, prog, objects>>
  \/ /\ Returning("ArkCall.args")
     /\ ArkCall_args(Head(kont).node, Head(kont).ark, Head(kont).fnVal,
                     Append(Head(kont).evaluatedArgs, ctl.val), Tail(kont))
     /\ UNCHANGED <<internVars, iterVars, typeVars, launchVars, linkVars, prog, objects>>

\* ArkClosure.call that ends the call with a value on a runtime error too
ArkClosure_call_catchesErrors ==
  \/ /\ ctl.m = "call"
     /\ ctl' = Eval(ctl.fn.body, ctl.ark)
     /\ kont' = <<[k |-> "ArkClosure.call"]>> \o kont
     /\ UNCHANGED <<internVars, iterVars, typeVars, launchVars, linkVars, prog, frames, valRefs, objects>>
  \/ /\ Returning("ArkClosure.call")
     /\ kont' = Tail(kont)
     /\ UNCHANGED <<internVars, iterVars, typeVars, launchVars, linkVars, prog, ctl, frames, valRefs, objects>>
  \/ /\ Throwing("ArkClosure.call")
     /\ ctl' = IF ctl.exc.ty \in {"ArkReturnException", "ArkRuntimeError"} THEN Ret(ctl.exc.val) ELSE ctl
     /\ kont' = Tail(kont)
     /\ UNCHANGED <<internVars, iterVars, typeVars, launchVars, linkVars, prog, frames, valRefs, objects>>

\* ArkClosure.call that ends the call with a value on every signal
ArkClosure_call_catchesSignals ==
  \/ /\ ctl.m = "call"
     /\ ctl' = Eval(ctl.fn.body, ctl.ark)
     /\ kont' = <<[k |-> "ArkClosure.call"]>> \o kont
     /\ UNCHANGED <<internVars, iterVars, typeVars, launchVars, linkVars, prog, frames, valRefs, objects>>
  \/ /\ Returning("ArkClosure.call")
     /\ kont' = Tail(kont)
     /\ UNCHANGED <<internVars, iterVars, typeVars, launchVars, linkVars, prog, ctl, frames, valRefs, objects>>
  \/ /\ Throwing("ArkClosure.call")
     /\ ctl' = IF IsArkNonLocalReturn(ctl.exc) THEN Ret(ctl.exc.val) ELSE ctl
     /\ kont' = Tail(kont)
     /\ UNCHANGED <<internVars, iterVars, typeVars, launchVars, linkVars, prog, frames, valRefs, objects>>

\* ArkClosure.call: the body in the new frame; a Return signal ends the call
ArkClosure_call ==
  \/ /\ ctl.m = "call"
     /\ ctl' = Eval(ctl.fn.body, ctl.ark)
     /\ kont' = <<[k |-> "ArkClosure.call"]>> \o kont
     /\ UNCHANGED <<internVars, iterVars, typeVars, launchVars, linkVars, prog, frames, valRefs, objects>>
  \/ /\ Returning("ArkClosure.call")
     /\ kont' = Tail(kont)
     /\ UNCHANGED <<internVars, iterVars, typeVars, launchVars, linkVars, prog, ctl, frames, valRefs, objects>>
  \/ /\ Throwing("ArkClosure.call")
     /\ ctl' = IF ctl.exc.ty = "ArkReturnException" THEN Ret(ctl.exc.val) ELSE ctl
     /\ kont' = Tail(kont)
     /\ UNCHANGED <<internVars, iterVars, typeVars, launchVars, linkVars, prog, frames, valRefs, objects>>

\* ArkObjectLiteral.eval: the next property initializer, or the new object
ArkObjectLiteral_props(node, ark, inits, n, ks) ==
  IF n < Len(node.properties)
  THEN /\ ctl' = Eval(node.properties[n + 1][2], ark)
       /\ kont' = <<[k |-> "ArkObjectLiteral", node |-> node, ark |-> ark,
                     inits |-> inits, n |-> n]>> \o ks
       /\ UNCHANGED objects
  ELSE /\ Len(objects) < MaxObjects
       /\ objects' = Append(objects, inits)
       /\ ctl' = Ret(ArkObject(Len(objects) + 1))
       /\ kont' = ks

ArkObjectLiteral_eval ==
  \/ /\ Evaluating("ArkObjectLiteral")
     /\ ArkObjectLiteral_props(ctl.node, ctl.ark, <<>>, 0, kont)
     /\ UNCHANGED <<internVars, iterVars, typeVars, launchVars, linkVars, prog, frames, valRefs>>
  \/ /\ Returning("ArkObjectLiteral")
     /\ LET K == Head(kont)
        IN ArkObjectLiteral_props(K.node, K.ark,
             (K.node.properties[K.n + 1][1] :> ctl.val) @@ K.inits, K.n + 1, Tail(kont))
     /\ UNCHANGED <<internVars, iterVars, typeVars, launchVars, linkVars, prog, frames, valRefs>>

\* pushLets_set whose loop stops one slot short
pushLets_set_short(cells, lets, vals) ==
  [c \in DOMAIN cells |->
     IF \E i \in 1..(Len(lets) - 1) : lets[i].id = c
     THEN vals[CHOOSE i \in DOMAIN lets : lets[i].id = c]
     ELSE cells[c]]

\* pushLets, the assignment loop: the cells after lets[i].set(ark, vals[i])
pushLets_set(cells, lets, vals) ==
  [c \in DOMAIN cells |->
     IF \E i \in DOMAIN lets : lets[i].id = c
     THEN vals[CHOOSE i \in DOMAIN lets : lets[i].id = c]
     ELSE cells[c]]

\* pushLets once the slots are pushed: the next initializer, or the
\* assignments and then the body of the ArkLet
pushLets_inits(node, ark, lets, vals, cells, ks) ==
  IF Len(vals) < Len(node.boundVars)
  THEN /\ ctl' = Eval(node.boundVars[Len(vals) + 1][2], ark)
       /\ kont' = <<[k |-> "pushLets", node |-> node, ark |-> ark,
                     lets |-> lets, vals |-> vals]>> \o ks
       /\ valRefs' = cells
  ELSE /\ valRefs' = pushLets_set(cells, lets, vals)
       /\ ctl' = Eval(node.body, ark)
       /\ kont' = <<[k |-> "ArkLet.body", ark |-> ark, nLets |-> Len(lets)]>> \o ks

\* ArkLet.eval that pops its slots whatever the exception
ArkLet_eval_trimsAlways ==
  \/ /\ Evaluating("ArkLet")
     /\ LET names == [i \in DOMAIN ctl.node.boundVars |-> ctl.node.boundVars[i][1]]
            cells == makeLocals(names, <<>>)
            lets == NewRefs(Len(cells))
        IN /\ Len(valRefs) + Len(cells) <= MaxRefs
           /\ frames' = ArkState_push(ctl.ark, lets)
           /\ pushLets_inits(ctl.node, ctl.ark, lets, <<>>, valRefs \o cells, kont)
     /\ UNCHANGED <<internVars, iterVars, typeVars, launchVars, linkVars, prog, objects>>
  \/ /\ Returning("pushLets")
     /\ LET K == Head(kont)
        IN pushLets_inits(K.node, K.ark, K.lets, Append(K.vals, ctl.val), valRefs, Tail(kont))
     /\ UNCHANGED <<internVars, iterVars, typeVars, launchVars, linkVars, prog, frames, objects>>
  \/ /\ Returning("ArkLet.body")
     /\ frames' = ArkState_pop(Head(kont).ark, Head(kont).nLets)
     /\ kont' = Tail(kont)
     /\ UNCHANGED <<internVars, iterVars, typeVars, launchVars, linkVars, prog, ctl, valRefs, objects>>
  \/ /\ Throwing("ArkLet.body")
     /\ frames' = ArkState_pop(Head(kont).ark, Head(kont).nLets)
     /\ kont' = Tail(kont)
     /\ UNCHANGED <<internVars, iterVars, typeVars, launchVars, linkVars, prog, ctl, valRefs, objects>>

ArkLet_eval ==
  \/ /\ Evaluating("ArkLet")
     /\ LET names == [i \in DOMAIN ctl.node.boundVars |-> ctl.node.boundVars[i][1]]
            cells == makeLocals(names, <<>>)
            lets == NewRefs(Len(cells))
        IN /\ Len(valRefs) + Len(cells) <= MaxRefs
           /\ frames' = ArkState_push(ctl.ark, lets)
           /\ pushLets_inits(ctl.node, ctl.ark, lets, <<>>, valRefs \o cells, kont)
     /\ UNCHANGED <<internVars, iterVars, typeVars, launchVars, linkVars, prog, objects>>
  \/ /\ Returning("pushLets")
     /\ LET K == Head(kont)
        IN pushLets_inits(K.node, K.ark, K.lets, Append(K.vals, ctl.val), valRefs, Tail(kont))
     /\ UNCHANGED <<internVars, iterVars, typeVars, launchVars, linkVars, prog, frames, objects>>
  \/ /\ Returning("ArkLet.body")
     /\ frames' = ArkState_pop(Head(kont).ark, Head(kont).nLets)
     /\ kont' = Tail(kont)
     /\ UNCHANGED <<internVars, iterVars, typeVars, launchVars, linkVars, prog, ctl, valRefs, objects>>
  \/ /\ Throwing("ArkLet.body")
     /\ frames' = IF IsArkNonLocalReturn(ctl.exc)
                  THEN ArkState_pop(Head(kont).ark, Head(kont).nLets)
                  ELSE frames
     /\ kont' = Tail(kont)
     /\ UNCHANGED <<internVars, iterVars, typeVars, launchVars, linkVars, prog, ctl, valRefs, objects>>

\* ArkSequence.eval: the next child, or the value of the last one
\* ArkSequence.eval that goes on from the child after the next one
ArkSequence_exps_skips(node, ark, n, res, ks) ==
  IF n + 1 < Len(node.exps)
  THEN /\ ctl' = Eval(node.exps[n + 2], ark)
       /\ kont' = <<[k |-> "ArkSequence", node |-> node, ark |-> ark, n |-> n + 2]>> \o ks
  ELSE /\ ctl' = Ret(res)
       /\ kont' = ks

ArkSequence_exps(node, ark, n, res, ks) ==
  IF n < Len(node.exps)
  THEN /\ ctl' = Eval(node.exps[n + 1], ark)
       /\ kont' = <<[k |-> "ArkSequence", node |-> node, ark |-> ark, n |-> n + 1]>> \o ks
  ELSE /\ ctl' = Ret(res)
       /\ kont' = ks

ArkSequence_eval ==
  \/ /\ Evaluating("ArkSequence")
     /\ ArkSequence_exps(ctl.node, ctl.ark, 0, ArkNull, kont)
     /\ UNCHANGED <<internVars, iterVars, typeVars, launchVars, linkVars, prog, frames, valRefs, objects>>
  \/ /\ Returning("ArkSequence")
     /\ ArkSequence_exps(Head(kont).node, Head(kont).ark, Head(kont).n, ctl.val, Tail(kont))
     /\ UNCHANGED <<internVars, iterVars, typeVars, launchVars, linkVars, prog, frames, valRefs, objects>>

ArkIf_eval ==
  \/ /\ Evaluating("ArkIf")
     /\ ctl' = Eval(ctl.node.cond, ctl.ark)
     /\ kont' = <<[k |-> "ArkIf", node |-> ctl.node, ark |-> ctl.ark]>> \o kont
     /\ UNCHANGED <<internVars, iterVars, typeVars, launchVars, linkVars, prog, frames, valRefs, objects>>
  \/ /\ Returning("ArkIf")
     /\ LET K == Head(kont)
        IN ctl' = IF toJs(ctl.val) THEN Eval(K.node.thenExp, K.ark)
                  ELSE IF K.node.elseExp # NoExp THEN Eval(K.node.elseExp, K.ark)
                  ELSE Ret(ArkNull)
     /\ kont' = Tail(kont)
     /\ UNCHANGED <<internVars, iterVars, typeVars, launchVars, linkVars, prog, frames, valRefs, objects>>

\* ArkAnd.eval that evaluates its right operand whatever the left value is
ArkAnd_eval_eager ==
  \/ /\ Evaluating("ArkAnd")
     /\ ctl' = Eval(ctl.node.left, ctl.ark)
     /\ kont' = <<[k |-> "ArkAnd", node |-> ctl.node, ark |-> ctl.ark]>> \o kont
     /\ UNCHANGED <<internVars, iterVars, typeVars, launchVars, linkVars, prog, frames, valRefs, objects>>
  \/ /\ Returning("ArkAnd")
     /\ ctl' = Eval(Head(kont).node.right, Head(kont).ark)
     /\ kont' = Tail(kont)
     /\ UNCHANGED <<internVars, iterVars, typeVars, launchVars, linkVars, prog, frames, valRefs, objects>>

\* ArkAnd.eval: the left operand, then the right one if the left value is
\* truthy, else the left value
ArkAnd_eval ==
  \/ /\ Evaluating("ArkAnd")
     /\ ctl' = Eval(ctl.node.left, ctl.ark)
     /\ kont' = <<[k |-> "ArkAnd", node |-> ctl.node, ark |-> ctl.ark]>> \o kont
     /\ UNCHANGED <<internVars, iterVars, typeVars, launchVars, linkVars, prog, frames, valRefs, objects>>
  \/ /\ Returning("ArkAnd")
     /\ ctl' = IF toJs(ctl.val) THEN Eval(Head(kont).node.right, Head(kont).ark)
               ELSE Ret(ctl.val)
     /\ kont' = Tail(kont)
     /\ UNCHANGED <<internVars, iterVars, typeVars, launchVars, linkVars, prog, frames, valRefs, objects>>

\* ArkOr.eval: the left operand, then the left value if it is truthy, else
\* the right operand
ArkOr_eval ==
  \/ /\ Evaluating("ArkOr")
     /\ ctl' = Eval(ctl.node.left, ctl.ark)
     /\ kont' = <<[k |-> "ArkOr", node |-> ctl.node, ark |-> ctl.ark]>> \o kont
     /\ UNCHANGED <<internVars, iterVars, typeVars, launchVars, linkVars, prog, frames, valRefs, objects>>
  \/ /\ Returning("ArkOr")
     /\ ctl' = IF toJs(ctl.val) THEN Ret(ctl.val)
               ELSE Eval(Head(kont).node.right, Head(kont).ark)
     /\ kont' = Tail(kont)
     /\ UNCHANGED <<internVars, iterVars, typeVars, launchVars, linkVars, prog, frames, valRefs, objects>>

\* ArkLoop.eval that takes a Continue signal for a Break
ArkLoop_eval_continueEnds ==
  \/ /\ Evaluating("ArkLoop")
     /\ ctl' = Eval(ctl.node.body, ctl.ark)
     /\ kont' = <<[k |-> "ArkLoop", node |-> ctl.node, ark |-> ctl.ark]>> \o kont
     /\ UNCHANGED <<internVars, iterVars, typeVars, launchVars, linkVars, prog, frames, valRefs, objects>>
  \/ /\ Returning("ArkLoop")
     /\ ctl' = Eval(Head(kont).node.body, Head(kont).ark)
     /\ UNCHANGED <<internVars, iterVars, typeVars, launchVars, linkVars, prog, kont, frames, valRefs, objects>>
  \/ /\ Throwing("ArkLoop")
     /\ IF IsArkNonLocalReturn(ctl.exc) /\ ctl.exc.ty # "ArkReturnException"
        THEN ctl' = Ret(ctl.exc.val) /\ kont' = Tail(kont)
        ELSE ctl' = ctl /\ kont' = Tail(kont)
     /\ UNCHANGED <<internVars, iterVars, typeVars, launchVars, linkVars, prog, frames, valRefs, objects>>

\* ArkLoop.eval that takes a Return signal for a Break
ArkLoop_eval_returnEnds ==
  \/ /\ Evaluating("ArkLoop")
     /\ ctl' = Eval(ctl.node.body, ctl.ark)
     /\ kont' = <<[k |-> "ArkLoop", node |-> ctl.node, ark |-> ctl.ark]>> \o kont
     /\ UNCHANGED <<internVars, iterVars, typeVars, launchVars, linkVars, prog, frames, valRefs, objects>>
  \/ /\ Returning("ArkLoop")
     /\ ctl' = Eval(Head(kont).node.body, Head(kont).ark)
     /\ UNCHANGED <<internVars, iterVars, typeVars, launchVars, linkVars, prog, kont, frames, valRefs, objects>>
  \/ /\ Throwing("ArkLoop")
     /\ IF ctl.exc.ty \in {"ArkBreakException", "ArkReturnException"}
        THEN ctl' = Ret(ctl.exc.val) /\ kont' = Tail(kont)
        ELSE IF ctl.exc.ty = "ArkContinueException"
        THEN ctl' = Eval(Head(kont).node.body, Head(kont).ark) /\ kont' = kont
        ELSE ctl' = ctl /\ kont' = Tail(kont)
     /\ UNCHANGED <<internVars, iterVars, typeVars, launchVars, linkVars, prog, frames, valRefs, objects>>

\* ArkLoop.eval: the body again and again; Break ends the loop with the
\* signal's value, Continue restarts the body, anything else propagates
ArkLoop_eval ==
  \/ /\ Evaluating("ArkLoop")
     /\ ctl' = Eval(ctl.node.body, ctl.ark)
     /\ kont' = <<[k |-> "ArkLoop", node |-> ctl.node, ark |-> ctl.ark]>> \o kont
     /\ UNCHANGED <<internVars, iterVars, typeVars, launchVars, linkVars, prog, frames, valRefs, objects>>
  \/ /\ Returning("ArkLoop")
     /\ ctl' = Eval(Head(kont).node.body, Head(kont).ark)
     /\ UNCHANGED <<internVars, iterVars, typeVars, launchVars, linkVars, prog, kont, frames, valRefs, objects>>
  \/ /\ Throwing("ArkLoop")
     /\ IF ctl.exc.ty = "ArkBreakException"
        THEN ctl' = Ret(ctl.exc.val) /\ kont' = Tail(kont)
        ELSE IF ctl.exc.ty = "ArkContinueException"
        THEN ctl' = Eval(Head(kont).node.body, Head(kont).ark) /\ kont' = kont
        ELSE ctl' = ctl /\ kont' = Tail(kont)
     /\ UNCHANGED <<internVars, iterVars, typeVars, launchVars, linkVars, prog, frames, valRefs, objects>>

ArkBreak_eval ==
  \/ /\ Evaluating("ArkBreak")
     /\ ctl' = Eval(ctl.node.exp, ctl.ark)
     /\ kont' = <<[k |-> "ArkBreak"]>> \o kont
     /\ UNCHANGED <<internVars, iterVars, typeVars, launchVars, linkVars, prog, frames, valRefs, objects>>
  \/ /\ Returning("ArkBreak")
     /\ ctl' = Throw(ArkBreakException(ctl.val))
     /\ kont' = Tail(kont)
     /\ UNCHANGED <<internVars, iterVars, typeVars, launchVars, linkVars, prog, frames, valRefs, objects>>

ArkContinue_eval ==
  /\ Evaluating("ArkContinue")
  /\ ctl' = Throw(ArkContinueException)
  /\ UNCHANGED <<internVars, iterVars, typeVars, launchVars, linkVars, prog, kont, frames, valRefs, objects>>

ArkReturn_eval ==
  \/ /\ Evaluating("ArkReturn")
     /\ ctl' = Eval(ctl.node.exp, ctl.ark)
     /\ kont' = <<[k |-> "ArkReturn"]>> \o kont
     /\ UNCHANGED <<internVars, iterVars, typeVars, launchVars, linkVars, prog, frames, valRefs, objects>>
  \/ /\ Returning("ArkReturn")
     /\ ctl' = Throw(ArkReturnException(ctl.val))
     /\ kont' = Tail(kont)
     /\ UNCHANGED <<internVars, iterVars, typeVars, launchVars, linkVars, prog, frames, valRefs, objects>>

\* the suspended calls that hold a try/catch around their await
Catchers == {"ArkClosure.call", "ArkLet.body", "ArkLoop"}

\* An exception delivered to an await that no try encloses rejects the
\* awaiting async call in its turn.
Propagate ==
  /\ ctl.m = "throw" /\ kont # <<>> /\ Head(kont).k \notin Catchers
  /\ kont' = Tail(kont)
  /\ UNCHANGED <<internVars, iterVars, typeVars, launchVars, linkVars, prog, ctl, frames, valRefs, objects>>

-----------------------------------------------------------------------------
(* The compiled trees the model runs.  A tree is named by a family and two *)
(* parameters a, b that index Vals.  Locals and captures are indexed as    *)
(* the front end resolves them.                                            *)

Vals == <<ArkNull, ArkBoolean(TRUE), ArkNumber(0), ArkNumber(5), ArkString("a"), ArkString("b")>>

Lit(i) == ArkLiteral(Vals[i])
True == ArkLiteral(ArkBoolean(TRUE))
False == ArkLiteral(ArkBoolean(FALSE))

\* let x = a in let f = fn () {x} in (set x b; f())
CaptureRead(a, b) ==
  ArkLet(<< <<"x", Lit(a)>> >>,
    ArkLet(<< <<"f", ArkFn(<<>>, <<ArkLocal(0)>>, ArkCapture(0))>> >>,
      ArkSequence(<<ArkSet(ArkLocal(0), Lit(b)), ArkCall(ArkLocal(1), <<>>)>>)))

\* let x = a in let f = fn () {set x b} in (f(); x)
CaptureWrite(a, b) ==
  ArkLet(<< <<"x", Lit(a)>> >>,
    ArkLet(<< <<"f", ArkFn(<<>>, <<ArkLocal(0)>>, ArkSet(ArkCapture(0), Lit(b)))>> >>,
      ArkSequence(<<ArkCall(ArkLocal(1), <<>>), ArkLocal(0)>>)))

\* let f = fn (c) {if c {g(false)} else {a}},
\*     g = fn (c) {if c {f(false)} else {b}},
\*     h = fn (c) {if c {h(false)} else {7}}
\* in which(true): f captures the later g, g the earlier f, h itself
LetRec(which, a, b) ==
  ArkLet(<< <<"f", ArkFn(<<"c">>, <<ArkLocal(1)>>,
                ArkIf(ArkLocal(0), ArkCall(ArkCapture(0), <<False>>), Lit(a)))>>,
            <<"g", ArkFn(<<"c">>, <<ArkLocal(0)>>,
                ArkIf(ArkLocal(0), ArkCall(ArkCapture(0), <<False>>), Lit(b)))>>,
            <<"h", ArkFn(<<"c">>, <<ArkLocal(2)>>,
                ArkIf(ArkLocal(0), ArkCall(ArkCapture(0), <<False>>), ArkLiteral(ArkNumber(7))))>> >>,
    ArkCall(ArkLocal(which), <<True>>))

\* let x = false in loop {if x {break a}; set x true}
LoopBreak(a) ==
  ArkLet(<< <<"x", False>> >>,
    ArkLoop(ArkSequence(<<ArkIf(ArkLocal(0), ArkBreak(Lit(a)), NoExp),
                          ArkSet(ArkLocal(0), True)>>)))

\* loop {break}: ArkBreak's operand defaults to a literal Null
LoopBreakNull == ArkLoop(ArkBreak(ArkLiteral(ArkNull)))

\* loop {loop {break a}; break b}
LoopNested(a, b) ==
  ArkLoop(ArkSequence(<<ArkLoop(ArkBreak(Lit(a))), ArkBreak(Lit(b))>>))

\* let x = false in loop {if x {break a}; set x true; continue; break b}
LoopContinue(a, b) ==
  ArkLet(<< <<"x", False>> >>,
    ArkLoop(ArkSequence(<<ArkIf(ArkLocal(0), ArkBreak(Lit(a)), NoExp),
                          ArkSet(ArkLocal(0), True),
                          ArkContinue,
                          ArkBreak(Lit(b))>>)))

\* loop {a}: a body that completes normally, for ever
LoopForever(a) == ArkLoop(Lit(a))

\* loop {let y = a in continue}
LoopLet(a) == ArkLoop(ArkLet(<< <<"y", Lit(a)>> >>, ArkContinue))

\* let x = a in (set x b; x)
SetGuard(a, b) ==
  ArkLet(<< <<"x", Lit(a)>> >>,
    ArkSequence(<<ArkSet(ArkLocal(0), Lit(b)), ArkLocal(0)>>))

\* let x = a in (set x null; set x b)
NullFirst(a, b) ==
  ArkLet(<< <<"x", Lit(a)>> >>,
    ArkSequence(<<ArkSet(ArkLocal(0), ArkLiteral(ArkNull)), ArkSet(ArkLocal(0), Lit(b))>>))

\* let o = {p: a} in (set o.p b; o.p)
PropSet(a, b) ==
  ArkLet(<< <<"o", ArkObjectLiteral(<< <<"p", Lit(a)>> >>)>> >>,
    ArkSequence(<<ArkSet(ArkProperty(ArkLocal(0), "p"), Lit(b)),
                  ArkProperty(ArkLocal(0), "p")>>))

\* let o = {p: a} in (set o.q b; o.q)
PropSetAbsent(a, b) ==
  ArkLet(<< <<"o", ArkObjectLiteral(<< <<"p", Lit(a)>> >>)>> >>,
    ArkSequence(<<ArkSet(ArkProperty(ArkLocal(0), "q"), Lit(b)),
                  ArkProperty(ArkLocal(0), "q")>>))

\* let o = {p: a} in o.q
PropGetAbsent(a) ==
  ArkLet(<< <<"o", ArkObjectLiteral(<< <<"p", Lit(a)>> >>)>> >>,
    ArkProperty(ArkLocal(0), "q"))

\* let f = fn () {a} in f.p
PropNonObject(a) ==
  ArkLet(<< <<"f", ArkFn(<<>>, <<>>, Lit(a))>> >>, ArkProperty(ArkLocal(0), "p"))

\* let f = fn () {return a; b} in f()
Return(a, b) ==
  ArkLet(<< <<"f", ArkFn(<<>>, <<>>, ArkSequence(<<ArkReturn(Lit(a)), Lit(b)>>))>> >>,
    ArkCall(ArkLocal(0), <<>>))

\* let f = fn (p, q) {q} in f(a, b)
Args(a, b) ==
  ArkLet(<< <<"f", ArkFn(<<"p", "q">>, <<>>, ArkLocal(1))>> >>,
    ArkCall(ArkLocal(0), <<Lit(a), Lit(b)>>))

\* let f = fn (p, q, r) {r} in f(a, b)
ArgsFewer(a, b) ==
  ArkLet(<< <<"f", ArkFn(<<"p", "q", "r">>, <<>>, ArkLocal(2))>> >>,
    ArkCall(ArkLocal(0), <<Lit(a), Lit(b)>>))

\* let f = fn (p) {p} in f(a, b, a)
ArgsSurplus(a, b) ==
  ArkLet(<< <<"f", ArkFn(<<"p">>, <<>>, ArkLocal(0))>> >>,
    ArkCall(ArkLocal(0), <<Lit(a), Lit(b), Lit(a)>>))

\* let x = a, f = fn (p) {let y = p in loop {let z = y in return z}}
\* in (f(b); x): f captures x
CallFrame(a, b) ==
  ArkLet(<< <<"x", Lit(a)>>,
            <<"f", ArkFn(<<"p">>, <<ArkLocal(0)>>,
                ArkLet(<< <<"y", ArkLocal(0)>> >>,
                  ArkLoop(ArkLet(<< <<"z", ArkLocal(1)>> >>, ArkReturn(ArkLocal(2))))))>> >>,
    ArkSequence(<<ArkCall(ArkLocal(1), <<Lit(b)>>), ArkLocal(0)>>))

\* let f = fn (p) {loop {let z = p in loop {return z}}; a} in f(b)
ReturnLoop(a, b) ==
  ArkLet(<< <<"f", ArkFn(<<"p">>, <<>>,
                ArkSequence(<<ArkLoop(ArkLet(<< <<"z", ArkLocal(0)>> >>,
                                        ArkLoop(ArkReturn(ArkLocal(1))))),
                              Lit(a)>>))>> >>,
    ArkCall(ArkLocal(0), <<Lit(b)>>))

\* let f = fn () {loop {return}; a} in f(): ArkReturn's operand defaults to
\* a literal Null
ReturnNull(a) ==
  ArkLet(<< <<"f", ArkFn(<<>>, <<>>,
                ArkSequence(<<ArkLoop(ArkReturn(ArkLiteral(ArkNull))), Lit(a)>>))>> >>,
    ArkCall(ArkLocal(0), <<>>))

\* loop {let y = (break a) in y}: a signal raised by an initializer
LetInitBreak(a) == ArkLoop(ArkLet(<< <<"y", ArkBreak(Lit(a))>> >>, ArkLocal(0)))

\* let m = false, n = false in ((set m true; a) and (set n true; b))
AndEffect(a, b) ==
  ArkLet(<< <<"m", False>>, <<"n", False>> >>,
    ArkAnd(ArkSequence(<<ArkSet(ArkLocal(0), True), Lit(a)>>),
           ArkSequence(<<ArkSet(ArkLocal(1), True), Lit(b)>>)))

\* let m = false, n = false in ((set m true; a) or (set n true; b))
OrEffect(a, b) ==
  ArkLet(<< <<"m", False>>, <<"n", False>> >>,
    ArkOr(ArkSequence(<<ArkSet(ArkLocal(0), True), Lit(a)>>),
          ArkSequence(<<ArkSet(ArkLocal(1), True), Lit(b)>>)))

\* let f = fn () {loop {let y = a in (if true {true and (false or a())}; break)}}
\* in (f(); a): a() fails with 'Invalid call'
ErrorDeep(a) ==
  ArkLet(<< <<"f", ArkFn(<<>>, <<>>,
                ArkLoop(ArkLet(<< <<"y", Lit(a)>> >>,
                  ArkSequence(<<ArkIf(True,
                                  ArkAnd(True, ArkOr(False, ArkCall(Lit(a), <<>>))),
                                  NoExp),
                                ArkBreak(ArkLiteral(ArkNull))>>))))>> >>,
    ArkSequence(<<ArkCall(ArkLocal(0), <<>>), Lit(a)>>))

\* (break a; a): a Break signal outside every loop
BreakTop(a) == ArkSequence(<<ArkBreak(Lit(a)), Lit(a)>>)

\* let y = a in (continue; y): a Continue signal outside every loop
ContinueTop(a) == ArkLet(<< <<"y", Lit(a)>> >>, ArkSequence(<<ArkContinue, ArkLocal(0)>>))

\* loop {return a}: a Return signal outside every closure
ReturnTop(a) == ArkLoop(ArkReturn(Lit(a)))

\* let f = fn () {break a; a} in f(): a Break signal in a closure, outside
\* every loop
BreakInCall(a) ==
  ArkLet(<< <<"f", ArkFn(<<>>, <<>>, ArkSequence(<<ArkBreak(Lit(a)), Lit(a)>>))>> >>,
    ArkCall(ArkLocal(0), <<>>))

\* a(): a call of a value that is no callable
InvalidCall(a) == ArkCall(Lit(a), <<>>)

\* let x = null, y = null in (set x a; set y x; b)
SeqOrder(a, b) ==
  ArkLet(<< <<"x", ArkLiteral(ArkNull)>>, <<"y", ArkLiteral(ArkNull)>> >>,
    ArkSequence(<<ArkSet(ArkLocal(0), Lit(a)), ArkSet(ArkLocal(1), ArkLocal(0)), Lit(b)>>))

\* let x = null in loop {(set x a; break x; set x b)}
SeqSignal(a, b) ==
  ArkLet(<< <<"x", ArkLiteral(ArkNull)>> >>,
    ArkLoop(ArkSequence(<<ArkSet(ArkLocal(0), Lit(a)), ArkBreak(ArkLocal(0)),
                          ArkSet(ArkLocal(0), Lit(b))>>)))

\* let x = a in (let y = b, z = b in y()): the call fails with 'Invalid call'
LetError(a, b) ==
  ArkLet(<< <<"x", Lit(a)>> >>,
    ArkLet(<< <<"y", Lit(b)>>, <<"z", Lit(b)>> >>, ArkCall(ArkLocal(1), <<>>)))

\* let x = a in (let y = x(), z = a in z): the initializer of y fails
LetInitError(a) ==
  ArkLet(<< <<"x", Lit(a)>> >>,
    ArkLet(<< <<"y", ArkCall(ArkLocal(0), <<>>)>>, <<"z", Lit(a)>> >>, ArkLocal(2)))

\* let t = null, u = null, w = null, f = fn (p, q) {b}
\* in (set t a; f)(set u t, set w u)
CallOrder(a, b) ==
  ArkLet(<< <<"t", ArkLiteral(ArkNull)>>, <<"u", ArkLiteral(ArkNull)>>,
            <<"w", ArkLiteral(ArkNull)>>, <<"f", ArkFn(<<"p", "q">>, <<>>, Lit(b))>> >>,
    ArkCall(ArkSequence(<<ArkSet(ArkLocal(0), Lit(a)), ArkLocal(3)>>),
            <<ArkSet(ArkLocal(1), ArkLocal(0)), ArkSet(ArkLocal(2), ArkLocal(1))>>))

\* let t = null in a(set t b): a is no callable
CallInvalidArgs(a, b) ==
  ArkLet(<< <<"t", ArkLiteral(ArkNull)>> >>,
    ArkCall(Lit(a), <<ArkSet(ArkLocal(0), Lit(b))>>))

\* let t = null, u = null, f = fn (p, q) {set u b}
\* in loop {f(break a, set t b)}: f captures u
CallArgSignal(a, b) ==
  ArkLet(<< <<"t", ArkLiteral(ArkNull)>>, <<"u", ArkLiteral(ArkNull)>>,
            <<"f", ArkFn(<<"p", "q">>, <<ArkLocal(1)>>, ArkSet(ArkCapture(0), Lit(b)))>> >>,
    ArkLoop(ArkCall(ArkLocal(2), <<ArkBreak(Lit(a)), ArkSet(ArkLocal(0), Lit(b))>>)))

\* let t = null, u = null, f = fn (p, q) {set u b}
\* in f(a(), set t b): the first argument fails with 'Invalid call'
CallArgError(a, b) ==
  ArkLet(<< <<"t", ArkLiteral(ArkNull)>>, <<"u", ArkLiteral(ArkNull)>>,
            <<"f", ArkFn(<<"p", "q">>, <<ArkLocal(1)>>, ArkSet(ArkCapture(0), Lit(b)))>> >>,
    ArkCall(ArkLocal(2), <<ArkCall(Lit(a), <<>>), ArkSet(ArkLocal(0), Lit(b))>>))

\* let x = null in (set x a; set x b; x)
NullThen(a, b) ==
  ArkLet(<< <<"x", ArkLiteral(ArkNull)>> >>,
    ArkSequence(<<ArkSet(ArkLocal(0), Lit(a)), ArkSet(ArkLocal(0), Lit(b)), ArkLocal(0)>>))

\* let f = fn (p) {(set p a; set p b; p)} in f(): p is bound to no argument
UndefThen(a, b) ==
  ArkLet(<< <<"f", ArkFn(<<"p">>, <<>>,
                ArkSequence(<<ArkSet(ArkLocal(0), Lit(a)), ArkSet(ArkLocal(0), Lit(b)),
                              ArkLocal(0)>>))>> >>,
    ArkCall(ArkLocal(0), <<>>))

\* let f = fn (p, u) {(set p u; set p a; p)} in f(null): u is bound to no argument
NullThenUndef(a) ==
  ArkLet(<< <<"f", ArkFn(<<"p", "u">>, <<>>,
                ArkSequence(<<ArkSet(ArkLocal(0), ArkLocal(1)), ArkSet(ArkLocal(0), Lit(a)),
                              ArkLocal(0)>>))>> >>,
    ArkCall(ArkLocal(0), <<ArkLiteral(ArkNull)>>))

\* let mk = fn () {let v = null in {g: fn () {let z = b in v}, s: fn () {set v a}}}
\* in let o = mk() in let w = b in (o.s(); o.g()): g and s capture v
OutliveCall(a, b) ==
  ArkLet(<< <<"mk", ArkFn(<<>>, <<>>,
      ArkLet(<< <<"v", ArkLiteral(ArkNull)>> >>,
        ArkObjectLiteral(<< <<"g", ArkFn(<<>>, <<ArkLocal(0)>>,
                                          ArkLet(<< <<"z", Lit(b)>> >>, ArkCapture(0)))>>,
                               <<"s", ArkFn(<<>>, <<ArkLocal(0)>>,
                                          ArkSet(ArkCapture(0), Lit(a)))>> >>)))>> >>,
    ArkLet(<< <<"o", ArkCall(ArkLocal(0), <<>>)>> >>,
      ArkLet(<< <<"w", Lit(b)>> >>,
        ArkSequence(<<ArkCall(ArkProperty(ArkLocal(1), "s"), <<>>),
                      ArkCall(ArkProperty(ArkLocal(1), "g"), <<>>)>>))))

\* let o = (let v = null in {g: fn () {let z = b in v}, s: fn () {set v a}})
\* in let w = b in (o.s(); o.g()): w takes the place of v in the frame
OutliveLet(a, b) ==
  ArkLet(<< <<"o", ArkLet(<< <<"v", ArkLiteral(ArkNull)>> >>,
      ArkObjectLiteral(<< <<"g", ArkFn(<<>>, <<ArkLocal(1)>>,
                                        ArkLet(<< <<"z", Lit(b)>> >>, ArkCapture(0)))>>,
                             <<"s", ArkFn(<<>>, <<ArkLocal(1)>>,
                                        ArkSet(ArkCapture(0), Lit(a)))>> >>))>> >>,
    ArkLet(<< <<"w", Lit(b)>> >>,
      ArkSequence(<<ArkCall(ArkProperty(ArkLocal(0), "s"), <<>>),
                    ArkCall(ArkProperty(ArkLocal(0), "g"), <<>>)>>)))

\* let x = a, y = x in y: the second initializer reads the first name
LetInitOrder(a, b) ==
  ArkLet(<< <<"x", Lit(a)>>, <<"y", ArkLocal(0)>> >>, ArkLocal(1))

\* let f = fn () {(break a; b)} in loop {let y = b in (f(); break b)}: the
\* Break signal of the closure meets no loop in the closure
BreakCall(a, b) ==
  ArkLet(<< <<"f", ArkFn(<<>>, <<>>, ArkSequence(<<ArkBreak(Lit(a)), Lit(b)>>))>> >>,
    ArkLoop(ArkLet(<< <<"y", Lit(b)>> >>,
      ArkSequence(<<ArkCall(ArkLocal(0), <<>>), ArkBreak(Lit(b))>>))))

\* let x = false, f = fn () {(continue; b)}
\* in loop {let y = b in (if x {break a}; set x true; f(); break b)}
ContinueCall(a, b) ==
  ArkLet(<< <<"x", False>>,
            <<"f", ArkFn(<<>>, <<>>, ArkSequence(<<ArkContinue, Lit(b)>>))>> >>,
    ArkLoop(ArkLet(<< <<"y", Lit(b)>> >>,
      ArkSequence(<<ArkIf(ArkLocal(0), ArkBreak(Lit(a)), NoExp),
                    ArkSet(ArkLocal(0), True),
                    ArkCall(ArkLocal(1), <<>>),
                    ArkBreak(Lit(b))>>))))

Input(name, a, b) == [name |-> name, a |-> a, b |-> b]

V == DOMAIN Vals

ProgInputs ==
  {Input(n, a, b) : n \in {"CaptureRead", "CaptureWrite", "LoopNested", "LoopContinue",
                            "SetGuard", "NullFirst", "PropSet", "PropSetAbsent",
                            "Return", "Args", "ArgsFewer", "ArgsSurplus", "CallFrame", "ReturnLoop", "AndEffect", "OrEffect",
                            "LetRec0", "LetRec1", "LetRec2",
                            "SeqOrder", "SeqSignal", "LetError", "CallOrder", "CallInvalidArgs", "CallArgSignal", "CallArgError", "NullThen", "UndefThen", "OutliveCall", "OutliveLet", "LetInitOrder", "BreakCall", "ContinueCall"},
                     a \in V, b \in V}
  \cup {Input(n, a, 1) : n \in {"LoopBreak", "LoopForever", "LoopLet", "PropGetAbsent",
                                 "PropNonObject", "InvalidCall", "ReturnNull", "LetInitBreak",
                                 "ErrorDeep", "BreakTop", "ContinueTop", "ReturnTop",
                                 "BreakInCall", "LetInitError", "NullThenUndef"}, a \in V}
  \cup {Input("LoopBreakNull", 1, 1)}

Program(p) ==
  CASE p.name = "CaptureRead" -> CaptureRead(p.a, p.b)
    [] p.name = "CaptureWrite" -> CaptureWrite(p.a, p.b)
    [] p.name = "LetRec0" -> LetRec(0, p.a, p.b)
    [] p.name = "LetRec1" -> LetRec(1, p.a, p.b)
    [] p.name = "LetRec2" -> LetRec(2, p.a, p.b)
    [] p.name = "LoopBreak" -> LoopBreak(p.a)
    [] p.name = "LoopBreakNull" -> LoopBreakNull
    [] p.name = "LoopNested" -> LoopNested(p.a, p.b)
    [] p.name = "LoopContinue" -> LoopContinue(p.a, p.b)
    [] p.name = "LoopForever" -> LoopForever(p.a)
    [] p.name = "LoopLet" -> LoopLet(p.a)
    [] p.name = "SetGuard" -> SetGuard(p.a, p.b)
    [] p.name = "NullFirst" -> NullFirst(p.a, p.b)
    [] p.name = "PropSet" -> PropSet(p.a, p.b)
    [] p.name = "PropSetAbsent" -> PropSetAbsent(p.a, p.b)
    [] p.name = "PropGetAbsent" -> PropGetAbsent(p.a)
    [] p.name = "PropNonObject" -> PropNonObject(p.a)
    [] p.name = "Return" -> Return(p.a, p.b)
    [] p.name = "Args" -> Args(p.a, p.b)
    [] p.name = "InvalidCall" -> InvalidCall(p.a)
    [] p.name = "ArgsFewer" -> ArgsFewer(p.a, p.b)
    [] p.name = "ErrorDeep" -> ErrorDeep(p.a)
    [] p.name = "BreakTop" -> BreakTop(p.a)
    [] p.name = "ContinueTop" -> ContinueTop(p.a)
    [] p.name = "ReturnTop" -> ReturnTop(p.a)
    [] p.name = "BreakInCall" -> BreakInCall(p.a)
    [] p.name = "AndEffect" -> AndEffect(p.a, p.b)
    [] p.name = "OrEffect" -> OrEffect(p.a, p.b)
    [] p.name = "LetInitBreak" -> LetInitBreak(p.a)
    [] p.name = "ReturnLoop" -> ReturnLoop(p.a, p.b)
    [] p.name = "ReturnNull" -> ReturnNull(p.a)
    [] p.name = "CallFrame" -> CallFrame(p.a, p.b)
    [] p.name = "SeqOrder" -> SeqOrder(p.a, p.b)
    [] p.name = "SeqSignal" -> SeqSignal(p.a, p.b)
    [] p.name = "LetError" -> LetError(p.a, p.b)
    [] p.name = "LetInitError" -> LetInitError(p.a)
    [] p.name = "CallOrder" -> CallOrder(p.a, p.b)
    [] p.name = "CallInvalidArgs" -> CallInvalidArgs(p.a, p.b)
    [] p.name = "CallArgSignal" -> CallArgSignal(p.a, p.b)
    [] p.name = "CallArgError" -> CallArgError(p.a, p.b)
    [] p.name = "NullThen" -> NullThen(p.a, p.b)
    [] p.name = "UndefThen" -> UndefThen(p.a, p.b)
    [] p.name = "NullThenUndef" -> NullThenUndef(p.a)
    [] p.name = "OutliveCall" -> OutliveCall(p.a, p.b)
    [] p.name = "OutliveLet" -> OutliveLet(p.a, p.b)
    [] p.name = "LetInitOrder" -> LetInitOrder(p.a, p.b)
    [] p.name = "BreakCall" -> BreakCall(p.a, p.b)
    [] p.name = "ContinueCall" -> ContinueCall(p.a, p.b)
    [] p.name = "ArgsSurplus" -> ArgsSurplus(p.a, p.b)

-----------------------------------------------------------------------------
(* The evaluator: ArkState.run(compiledVal) on a new ArkState.             *)

\* the intern table and the containers before anything is constructed
InternIdle ==
  /\ heap = <<>>
  /\ intern = [raw \in {} |-> 0]
  /\ pending = {}
  /\ held = {}
  /\ map = [key \in {} |-> 0]
  /\ lastOp = [op |-> "none"]

IterIdle ==
  /\ lists = <<>>
  /\ maps = <<>>
  /\ gens = <<>>

\* no node constructed
TypeIdle ==
  /\ nodes = {}
  /\ lastNew = [k |-> "none"]
  /\ registry = {}
  /\ generics = <<>>
  /\ ofCalls = <<>>

\* nothing launched
LaunchIdle ==
  /\ units = <<>>
  /\ running = 0
  /\ log = <<>>

\* no stack made by the first interpreter
StackIdle ==
  /\ arrays = <<>>
  /\ refCells = <<>>
  /\ stacks = <<>>
  /\ stackOp = [op |-> "none", writes |-> 0]
  /\ arkStack = 0
  /\ ictl = [m |-> "none"]
  /\ ikont = <<>>

\* ArkState.run of the first interpreter not called
LinkIdle ==
  /\ compiledVal = [val |-> <<>>, freeVars |-> <<>>]
  /\ env = [name \in {} |-> ArkNull]
  /\ symrefs = <<>>
  /\ run = [at |-> "none", i |-> 0, evaluated |-> 0]
  /\ StackIdle

Init ==
  /\ prog \in ProgInputs
  /\ ctl = Eval(Program(prog), 1)
  /\ kont = <<>>
  /\ frames = <<[locals |-> <<>>, captures |-> <<>>]>>
  /\ valRefs = <<>>
  /\ objects = <<>>
  /\ InternIdle
  /\ IterIdle
  /\ TypeIdle
  /\ LaunchIdle
  /\ LinkIdle

Next ==
  \/ ArkLiteral_eval
  \/ ArkLexp_eval
  \/ ArkLocal_evalRef
  \/ ArkCapture_evalRef
  \/ ArkProperty_evalRef
  \/ ArkSet_eval
  \/ ArkFn_eval
  \/ ArkCall_eval
  \/ ArkClosure_call
  \/ ArkObjectLiteral_eval
  \/ ArkLet_eval
  \/ ArkSequence_eval
  \/ ArkIf_eval
  \/ ArkAnd_eval
  \/ ArkOr_eval
  \/ ArkLoop_eval
  \/ ArkBreak_eval
  \/ ArkContinue_eval
  \/ ArkReturn_eval
  \/ Propagate

Spec == Init /\ [][Next]_vars

\* the value ArkState.run returned
Result == ctl.val

-----------------------------------------------------------------------------
(* Properties of the evaluator.                                            *)

Range(f) == {f[i] : i \in DOMAIN f}

GuardError == ctl.m = "throw" /\ ctl.exc.ty = "ArkRuntimeError"
                /\ ctl.exc.message = "Assignment to different type"

\* C1: Closures capture by reference.  After ArkFn has made a closure, a set
\* through the enclosing frame's local is what a later read of the ArkCapture
\* in the closure body returns (let x = a, f = fn () {x}; set x b; f() is b),
\* and a set through the ArkCapture in the body is what a later read of the
\* local returns; the capture of every frame of such a call is the very cell
\* of the local.
Thm_C1_CaptureByReference ==
  /\ (Done /\ prog.name \in {"CaptureRead", "CaptureWrite"}) => Result = Vals[prog.b]
  /\ prog.name \in {"CaptureRead", "CaptureWrite"} =>
       /\ \A f \in 2..Len(frames) : frames[f].captures = <<ArkValRef(1)>>
       /\ frames[1].locals # <<>> => frames[1].locals[1] = ArkValRef(1)

Wit_C1_CaptureByReference ==
  /\ Done /\ prog.name = "CaptureRead"
  /\ Vals[prog.a] # Vals[prog.b]
  /\ Result = Vals[prog.b]
  /\ Len(frames) = 2

\* C2: Let forward reference.  ArkLet pushes all its N slots onto the frame
\* before any initializer is evaluated, so that while the initializers run
\* every slot is a local of the frame; once initialization has finished every
\* function bound by the let is in its slot, and calling one of two mutually
\* referencing functions reaches the other's closure: the call never fails
\* with 'Invalid call' and returns what the other function returns.
Thm_C2_LetForwardReference ==
  /\ \A i \in DOMAIN kont :
       kont[i].k = "pushLets" =>
         /\ Len(kont[i].lets) = Len(kont[i].node.boundVars)
         /\ Range(kont[i].lets) \subseteq Range(frames[kont[i].ark].locals)
  /\ prog.name \in {"LetRec0", "LetRec1", "LetRec2"} =>
       /\ ctl.m # "throw"
       /\ (\E i \in DOMAIN kont : kont[i].k = "ArkLet.body") =>
            \A c \in 1..3 : valRefs[c].t = "ArkClosure"
       /\ Done => Result = CASE prog.name = "LetRec0" -> Vals[prog.b]
                             [] prog.name = "LetRec1" -> Vals[prog.a]
                             [] prog.name = "LetRec2" -> ArkNumber(7)

Wit_C2_LetForwardReference ==
  /\ Done /\ prog.name = "LetRec0"
  /\ Vals[prog.a] # Vals[prog.b]
  /\ Result = Vals[prog.b]
  /\ Len(frames) = 3

LoopTop == kont # <<>> /\ Head(kont).k = "ArkLoop"

C3_Results ==
  /\ (Done /\ prog.name = "LoopBreak") => Result = Vals[prog.a]
  /\ (Done /\ prog.name = "LoopBreakNull") => Result = ArkNull
  /\ (Done /\ prog.name = "LoopNested") => Result = Vals[prog.b]
  /\ (Done /\ prog.name = "LoopContinue") => Result = Vals[prog.a]
  /\ prog.name \in {"LoopForever", "LoopLet"} => ~Done

C3_Step ==
  /\ (LoopTop /\ (ctl.m = "ret" \/ (ctl.m = "throw" /\ ctl.exc.ty = "ArkContinueException")))
       => (kont' = kont /\ ctl' = Eval(Head(kont).node.body, Head(kont).ark))
  /\ (LoopTop /\ ctl.m = "throw" /\ ctl.exc.ty = "ArkBreakException")
       => (kont' = Tail(kont) /\ ctl' = Ret(ctl.exc.val))
  /\ (LoopTop /\ kont' = Tail(kont) /\ ctl'.m = "ret")
       => (ctl.m = "throw" /\ ctl.exc.ty = "ArkBreakException")

\* C3: ArkLoop returns a value only when it catches a Break signal, and the
\* value is the signal's (Null for a break without operand).  Normal
\* completion of the body and a Continue signal both start the body again
\* with the loop still pending, and a Break removes the innermost pending
\* loop alone.
Thm_C3_LoopBreak == []C3_Results /\ [][C3_Step]_vars

Wit_C3_LoopBreak ==
  /\ Done /\ prog.name = "LoopNested"
  /\ Vals[prog.a] # Vals[prog.b]
  /\ Result = Vals[prog.b]

\* the reference holds a value that is neither Null nor Undefined
HoldsValue(ref) ==
  /\ ArkRef_get(ref).ok
  /\ ArkRef_get(ref).val.t \notin {"ArkNullVal", "ArkUndefined"}

C4_Step ==
  (Returning("ArkSet.exp") /\ HoldsValue(Head(kont).ref)) =>
    LET ref == Head(kont).ref
        oldVal == ArkRef_get(ref).val
    IN IF ctl.val.t # oldVal.t
       THEN /\ ctl' = Throw(ArkRuntimeError("Assignment to different type", ""))
            /\ valRefs' = valRefs /\ objects' = objects
       ELSE /\ ctl' = Ret(ctl.val)
            /\ IF ref.r = "ArkValRef"
               THEN valRefs'[ref.id] = ctl.val
               ELSE objects'[ref.obj.id][ref.prop] = ctl.val

C4_Results ==
  (prog.name \in {"SetGuard", "PropSet"} /\ Vals[prog.a] # ArkNull) =>
    IF Vals[prog.a].t # Vals[prog.b].t
    THEN /\ ~Done
         /\ Failed => GuardError
         /\ GuardError => (IF prog.name = "SetGuard" THEN valRefs[1] ELSE objects[1]["p"])
                            = Vals[prog.a]
    ELSE /\ ctl.m # "throw"
         /\ Done => Result = Vals[prog.b]

\* C4: Assignment type guard.  An ArkSet to a reference that holds a value
\* other than Null and Undefined fails with ArkRuntimeError 'Assignment to
\* different type' when the new value is of another runtime variant, and the
\* reference (a local or a property) keeps its value; when the new value is
\* of the same variant the ArkSet succeeds and the reference holds it.
Thm_C4_AssignmentGuard == []C4_Results /\ [][C4_Step]_vars

Wit_C4_AssignmentGuard ==
  /\ Failed /\ GuardError /\ prog.name = "SetGuard"
  /\ Vals[prog.a].t = "ArkStringVal" /\ Vals[prog.b].t = "ArkNumberVal"
  /\ valRefs[1] = Vals[prog.a]

StringThenNullThenNumber ==
  /\ prog.name = "NullFirst"
  /\ Vals[prog.a].t = "ArkStringVal" /\ Vals[prog.b].t = "ArkNumberVal"

\* C5 as claimed: for a variable bound to a string, neither the assignment
\* of Null nor the following assignment of a number raises 'Assignment to
\* different type'.
Cex_C5_NullFirst == StringThenNullThenNumber => ~GuardError

\* C5, amended: for a variable bound to a string the assignment of Null
\* itself raises 'Assignment to different type' (Null is another variant
\* than the string), the variable keeps the string and the assignment of the
\* number is never reached; it is for a variable that holds Null that the
\* assignment of a number never raises it.
Thm_C5_NullFirst ==
  /\ StringThenNullThenNumber =>
       /\ ~Done
       /\ Failed => GuardError
       /\ valRefs # <<>> => valRefs[1] \in {ArkUndefined, Vals[prog.a]}
       /\ ~(Evaluating("ArkSet") /\ ctl.node.exp = Lit(prog.b))
  /\ (prog.name \in {"SetGuard", "NullFirst"} /\ Vals[prog.a] = ArkNull) =>
       /\ ctl.m # "throw"
       /\ Done => Result = Vals[prog.b]

Wit_C5_NullFirst ==
  /\ StringThenNullThenNumber /\ Failed /\ GuardError
  /\ valRefs[1] = Vals[prog.a]

\* C6 as claimed: an ArkSet whose lvalue is an ArkProperty naming a property
\* absent from the object succeeds without error and inserts the property,
\* so that the later read of the property returns the assigned value.
Cex_C6_PropertyWrite ==
  prog.name = "PropSetAbsent" =>
    /\ ctl.m # "throw"
    /\ Done => Result = Vals[prog.b]

C7_Step ==
  (/\ Returning("ArkLexp.eval") /\ ctl.val.r = "ArkPropertyRef"
   /\ ctl.val.obj.t = "ArkObject"
   /\ ctl.val.prop \notin DOMAIN objects[ctl.val.obj.id]) =>
    /\ ctl' = Throw(ArkRuntimeError("Invalid property", ctl.val.prop))
    /\ objects' = objects

C7_Results ==
  prog.name = "PropGetAbsent" =>
    /\ ~Done
    /\ Failed => ctl.exc = ArkRuntimeError("Invalid property", "q")
    /\ objects # <<>> => objects = <<("p" :> Vals[prog.a])>>

\* C7: Reading a property that is absent from an object fails with an
\* ArkRuntimeError 'Invalid property' naming the property, and the object is
\* as it was: the property is not added and no other property changes.
Thm_C7_PropertyRead == []C7_Results /\ [][C7_Step]_vars

Wit_C7_PropertyRead ==
  /\ Failed /\ prog.name = "PropGetAbsent"
  /\ ctl.exc = ArkRuntimeError("Invalid property", "q")
  /\ objects = <<("p" :> Vals[prog.a])>>

\* ArkCall.eval makes the call in this step
MakesCall == ctl.m = "ret" /\ ctl'.m = "call"

\* the evaluated arguments of the call made in this step
CallArgs ==
  IF Head(kont).k = "ArkCall.fn" THEN <<>>
  ELSE Append(Head(kont).evaluatedArgs, ctl.val)

\* the values in the local slots of the frame of the call made in this step
CalleeLocals ==
  [i \in DOMAIN frames'[ctl'.ark].locals |-> valRefs'[frames'[ctl'.ark].locals[i].id]]

C12_Step ==
  (MakesCall /\ Len(CallArgs) < Len(ctl'.fn.params)) =>
    /\ Len(CalleeLocals) = Len(ctl'.fn.params)
    /\ \A i \in DOMAIN CalleeLocals :
         CalleeLocals[i] = IF i <= Len(CallArgs) THEN CallArgs[i] ELSE ArkUndefined

C12_Results ==
  prog.name = "ArgsFewer" =>
    /\ ctl.m # "throw"
    /\ Done => Result = ArkUndefined

\* C12: Call with fewer arguments than parameters.  The frame of the callee
\* has one local slot for each declared parameter; the first k slots hold
\* the k evaluated arguments in order and the slot of every missing
\* trailing argument holds Undefined, not Null.
Thm_C12_MissingArguments == []C12_Results /\ [][C12_Step]_vars

Wit_C12_MissingArguments ==
  /\ prog.name = "ArgsFewer" /\ ctl.m = "call" /\ Vals[prog.a] # Vals[prog.b]
  /\ [i \in DOMAIN frames[ctl.ark].locals |-> valRefs[frames[ctl.ark].locals[i].id]]
       = <<Vals[prog.a], Vals[prog.b], ArkUndefined>>

\* new ArkList(list), as a value
ArkList(list) == [t |-> "ArkList", list |-> list]

\* C13 as claimed: in a call with more arguments than parameters the surplus
\* trailing arguments are collected, in order, into one List bound to a
\* single implicit trailing local, so that the frame of the callee has
\* exactly params.length + 1 local slots.
Cex_C13_SurplusArguments ==
  [][(MakesCall /\ Len(CallArgs) > Len(ctl'.fn.params)) =>
       LET n == Len(ctl'.fn.params)
       IN /\ Len(CalleeLocals) = n + 1
          /\ CalleeLocals[n + 1] = ArkList(SubSeq(CallArgs, n + 1, Len(CallArgs)))]_vars

\* the suspended calls and the control state that hold an ArkState
HasArk(rec) == "ark" \in DOMAIN rec

\* the frame whose evaluation takes this step
StepFrame ==
  IF HasArk(ctl) THEN ctl.ark
  ELSE IF kont # <<>> /\ HasArk(Head(kont)) THEN Head(kont).ark
  ELSE 0

\* a call lies between the suspended calls i and j, i inside j
CallBetween(i, j) == \E m \in i..j : kont[m].k = "ArkClosure.call"

\* The evaluation inside a call holds a frame made after every frame held by
\* the suspended calls around that call.
C14_Nesting ==
  /\ \A i, j \in DOMAIN kont :
       (i < j /\ HasArk(kont[i]) /\ HasArk(kont[j])) =>
         IF CallBetween(i, j) THEN kont[i].ark > kont[j].ark
         ELSE kont[i].ark = kont[j].ark
  /\ \A j \in DOMAIN kont :
       (HasArk(ctl) /\ HasArk(kont[j])) =>
         IF ctl.m = "call" \/ CallBetween(1, j) THEN ctl.ark > kont[j].ark
         ELSE ctl.ark = kont[j].ark

C14_Step ==
  /\ MakesCall =>
       /\ frames' = Append(frames, [locals |-> NewRefs(Len(CalleeLocals)),
                                    captures |-> ctl'.fn.captures])
       /\ ctl'.ark = Len(frames')
       /\ \A i \in DOMAIN CallArgs : CalleeLocals[i] = CallArgs[i]
  /\ ctl.m = "call" =>
       /\ ctl' = Eval(ctl.fn.body, ctl.ark)
       /\ Head(kont').k = "ArkClosure.call" /\ Tail(kont') = kont
  /\ (Returning("ArkClosure.call") \/ Throwing("ArkClosure.call")) =>
       /\ frames' = frames /\ kont' = Tail(kont)
       /\ ctl' = IF ctl.m = "throw" /\ ctl.exc.ty = "ArkReturnException"
                 THEN Ret(ctl.exc.val) ELSE ctl
  /\ \A f \in DOMAIN frames :
       /\ frames'[f].captures = frames[f].captures
       /\ f # StepFrame => frames'[f] = frames[f]

C14_Results ==
  prog.name = "CallFrame" =>
    /\ Len(frames) >= 2 =>
         /\ frames[2].captures = <<ArkValRef(1)>>
         /\ kont # <<>> =>
              frames[1] = [locals |-> <<ArkValRef(1), ArkValRef(2)>>, captures |-> <<>>]
    /\ ~Failed
    /\ Done => Result = Vals[prog.a]

\* C14: Call frame discipline.  The body of the callee runs in a new frame
\* whose locals are new cells holding the arguments and whose captures are
\* the capture list of the closure.  No step inside the call touches a
\* frame of a caller, and the end of the call, normal or through a Return
\* signal caught by ArkClosure.call, changes no frame: the frame of the
\* caller has the locals (same length, same cells) and the captures it had
\* when the call was made.
Thm_C14_CallFrame == [](C14_Results /\ C14_Nesting) /\ [][C14_Step]_vars

Wit_C14_CallFrame ==
  /\ prog.name = "CallFrame" /\ Vals[prog.a] # Vals[prog.b]
  /\ Returning("ArkSequence") /\ ctl.val = Vals[prog.b]
  /\ Len(frames) = 2 /\ Len(frames[2].locals) = 1
  /\ frames[1] = [locals |-> <<ArkValRef(1), ArkValRef(2)>>, captures |-> <<>>]

C15_Step ==
  (ctl.m = "throw" /\ ctl.exc.ty = "ArkReturnException" /\ kont # <<>>) =>
    /\ kont' = Tail(kont)
    /\ ctl' = IF Head(kont).k = "ArkClosure.call" THEN Ret(ctl.exc.val) ELSE ctl

C15_Results ==
  /\ prog.name \in {"Return", "ReturnLoop", "ReturnNull"} => ~Failed
  /\ (Done /\ prog.name = "Return") => Result = Vals[prog.a]
  /\ (Done /\ prog.name = "ReturnLoop") => Result = Vals[prog.b]
  /\ (Done /\ prog.name = "ReturnNull") => Result = ArkNull

\* C15: A Return signal raised inside a closure body, also inside nested
\* loops and lets, passes every suspended evaluation unchanged, ArkLoop
\* included, until it reaches ArkClosure.call, which ends the call with the
\* value of the signal (Null for a return without operand).
Thm_C15_ReturnSignal == []C15_Results /\ [][C15_Step]_vars

Wit_C15_ReturnSignal ==
  /\ prog.name = "ReturnLoop" /\ Vals[prog.a] # Vals[prog.b]
  /\ Done /\ Result = Vals[prog.b]

\* the evaluation of an ArkLet ends in this step: its body has returned, or
\* a Break, Continue or Return signal leaves it, raised in the body or in an
\* initializer
LetEnds ==
  /\ kont # <<>>
  /\ \/ Returning("ArkLet.body")
     \/ /\ ctl.m = "throw" /\ IsArkNonLocalReturn(ctl.exc)
        /\ Head(kont).k \in {"ArkLet.body", "pushLets"}

\* the number of slots the ending ArkLet has pushed
LetSlots == IF Head(kont).k = "pushLets" THEN Len(Head(kont).lets) ELSE Head(kont).nLets

\* C16 as claimed: whenever the evaluation of an ArkLet ends normally or
\* because a Break, Continue or Return signal propagates through it, raised
\* in its body or in an initializer, the locals of the frame have the length
\* they had when the let began: the slots of the let are gone.
Cex_C16_LetTrimming ==
  [][LetEnds =>
       Len(frames'[Head(kont).ark].locals)
         = Len(frames[Head(kont).ark].locals) - LetSlots]_vars

\* an ArkRuntimeError is being delivered
RuntimeError == ctl.m = "throw" /\ ctl.exc.ty = "ArkRuntimeError"

\* the evaluation of an ArkLet ends with a runtime error, raised in its body
\* or in an initializer
LetFails ==
  /\ RuntimeError /\ kont # <<>>
  /\ Head(kont).k \in {"ArkLet.body", "pushLets"}

\* the slots of the lets that are suspended in ks on the run's own frame
RECURSIVE SlotsOf(_)
SlotsOf(ks) ==
  IF ks = <<>> THEN 0
  ELSE SlotsOf(Tail(ks))
         + (IF Head(ks).k = "ArkLet.body" /\ Head(ks).ark = 1 THEN Head(ks).nLets
            ELSE IF Head(ks).k = "pushLets" /\ Head(ks).ark = 1 THEN Len(Head(ks).lets)
            ELSE 0)

\* the length of the locals of the run's frame when the ending let began:
\* the frame starts empty, and the lets around the ending one hold their slots
LetBegan == SlotsOf(Tail(kont))

\* C25 as claimed: when the evaluation of an ArkLet ends with an
\* ArkRuntimeError, the locals of the frame are N entries longer than when
\* the let began, N being the number of the let's slots.
Cex_C25_LetErrorNoTrim ==
  [][(LetFails /\ prog.name \in {"LetError", "LetInitError"}) =>
       Len(frames'[1].locals) = LetBegan + LetSlots]_vars

\* a let that ends with a runtime error leaves every frame as it is
C25_Step == LetFails => frames' = frames

C25_Results ==
  /\ (LetFails /\ prog.name \in {"LetError", "LetInitError"}) =>
       Len(frames[1].locals) >= LetBegan + LetSlots
  /\ (Failed /\ prog.name \in {"LetError", "LetInitError"}) =>
       Len(frames[1].locals) = 3

\* C25: When the evaluation of an ArkLet ends with an error that is not a
\* control signal, the let trims nothing: the locals of the frame keep the
\* length they had when the error reached the let, which is at least N
\* entries longer than when the let began (more when a let nested in it
\* was left untrimmed as well).
Thm_C25_LetErrorNoTrim == []C25_Results /\ [][C25_Step]_vars

\* the outer let of one slot has ended with the error of the call in the
\* inner let of two slots: three slots are left
Wit_C25_LetErrorNoTrim ==
  /\ prog.name = "LetError" /\ Failed
  /\ ctl.exc.message = "Invalid call"
  /\ Len(frames[1].locals) = 3

\* the callee is evaluated first; a value that is no callable fails the
\* call where it stands; argument n + 1 follows the value of argument n,
\* and the call follows the value of the last; an exception of the callee
\* or of an argument ends the ArkCall where it stands
C26_Step ==
  /\ Evaluating("ArkCall") =>
       /\ ctl' = Eval(ctl.node.fn, ctl.ark)
       /\ Head(kont') = [k |-> "ArkCall.fn", node |-> ctl.node, ark |-> ctl.ark]
       /\ Tail(kont') = kont
  /\ Returning("ArkCall.fn") =>
       LET call == Head(kont)
       IN IF ~IsArkCallable(ctl.val)
          THEN /\ ctl' = Throw(ArkRuntimeError("Invalid call", ""))
               /\ kont' = Tail(kont)
               /\ UNCHANGED <<frames, valRefs, objects>>
          ELSE IF call.node.args # <<>>
          THEN /\ ctl' = Eval(call.node.args[1], call.ark)
               /\ Head(kont').k = "ArkCall.args" /\ Head(kont').evaluatedArgs = <<>>
               /\ Tail(kont') = Tail(kont)
          ELSE ctl' = Call(ctl.val, Len(frames) + 1)
  /\ Returning("ArkCall.args") =>
       LET call == Head(kont)
           n == Len(call.evaluatedArgs) + 1
       IN IF n < Len(call.node.args)
          THEN /\ ctl' = Eval(call.node.args[n + 1], call.ark)
               /\ Head(kont').k = "ArkCall.args"
               /\ Head(kont').evaluatedArgs = Append(call.evaluatedArgs, ctl.val)
               /\ Tail(kont') = Tail(kont)
          ELSE /\ ctl' = Call(call.fnVal, Len(frames) + 1)
               /\ kont' = Tail(kont)
  /\ (Throwing("ArkCall.fn") \/ Throwing("ArkCall.args")) =>
       /\ ctl' = ctl
       /\ kont' = Tail(kont)
       /\ UNCHANGED <<frames, valRefs, objects>>

\* t, u and w tell what was evaluated, and in which order
C26_Results ==
  /\ prog.name = "CallOrder" =>
       /\ ~Failed
       /\ Done => (Result = Vals[prog.b]
                   /\ SubSeq(valRefs, 1, 3) = <<Vals[prog.a], Vals[prog.a], Vals[prog.a]>>)
  /\ prog.name = "CallInvalidArgs" =>
       /\ ~Done
       /\ Len(valRefs) = 1 => valRefs[1] \in {ArkUndefined, ArkNull}
       /\ Failed => ctl.exc = ArkRuntimeError("Invalid call", "")
  /\ prog.name \in {"CallArgSignal", "CallArgError"} =>
       /\ Len(frames) = 1
       /\ Len(valRefs) = 3 =>
            (valRefs[1] \in {ArkUndefined, ArkNull} /\ valRefs[2] \in {ArkUndefined, ArkNull})
  /\ prog.name = "CallArgSignal" => (~Failed /\ (Done => Result = Vals[prog.a]))
  /\ prog.name = "CallArgError" =>
       (~Done /\ (Failed => ctl.exc = ArkRuntimeError("Invalid call", "")))

\* C26: ArkCall evaluates the callee before any argument and the arguments
\* strictly left to right; when the callee value is not callable it fails
\* with ArkRuntimeError 'Invalid call' without evaluating any argument; an
\* error or a signal raised by argument i prevents the evaluation of every
\* later argument and the invocation of the callee.
Thm_C26_CallOrder == []C26_Results /\ [][C26_Step]_vars

\* the callee's effect, the first argument's and the second's happened in
\* this order, and the callee was called
Wit_C26_CallOrder ==
  /\ prog.name = "CallOrder" /\ Done
  /\ Vals[prog.a] = ArkNumber(5) /\ Vals[prog.b] = ArkString("a")
  /\ Result = ArkString("a")
  /\ SubSeq(valRefs, 1, 3) = <<ArkNumber(5), ArkNumber(5), ArkNumber(5)>>
  /\ Len(frames) = 2

\* the programs that set a variable twice, the first time when it holds
\* Null or Undefined
SetsTwice == prog.name \in {"NullThen", "UndefThen"}

\* the cell of the variable that is set
SetCell == IF prog.name = "NullThen" THEN 1 ELSE 2

\* C27 as claimed: after an ArkSet to a reference that holds Null or
\* Undefined, whatever the variant of the new value, the reference is
\* constrained to that variant: a second ArkSet of a value of another
\* variant does not succeed.
Cex_C27_GuardSkipped ==
  (SetsTwice /\ Vals[prog.b].t # Vals[prog.a].t) => ~Done

\* an ArkSet to a reference that holds Null or Undefined stores the new
\* value and returns it
C27_Step ==
  Returning("ArkSet.exp") =>
    LET ref == Head(kont).ref
    IN /\ (ref.r = "ArkValRef" /\ valRefs[ref.id] \in {ArkNull, ArkUndefined}) =>
            /\ ctl' = Ret(ctl.val)
            /\ valRefs' = [valRefs EXCEPT ![ref.id] = ctl.val]
       /\ (ref.r = "ArkPropertyRef" /\ ArkObjectBase_get(ref.obj, ref.prop) = ArkNull) =>
            /\ ctl' = Ret(ctl.val)
            /\ objects'[ref.obj.id][ref.prop] = ctl.val

C27_Results ==
  /\ SetsTwice =>
       /\ Failed => (GuardError /\ valRefs[SetCell] = Vals[prog.a])
       /\ (Vals[prog.a] # ArkNull /\ Vals[prog.b].t # Vals[prog.a].t) => ~Done
       /\ (Vals[prog.a] = ArkNull \/ Vals[prog.b].t = Vals[prog.a].t) => ~Failed
       /\ Done => (Result = Vals[prog.b] /\ valRefs[SetCell] = Vals[prog.b])
  /\ prog.name = "NullThenUndef" =>
       /\ ~Failed
       /\ Done => (Result = Vals[prog.a] /\ valRefs[2] = Vals[prog.a])

\* C27: The assignment guard is skipped when the reference currently holds
\* Null or Undefined: the ArkSet succeeds for a new value of any variant.
\* When the new value is of a variant other than Null and Undefined the
\* reference is from then on constrained to that variant; when it is Null
\* or Undefined the reference stays unconstrained.
Thm_C27_GuardSkipped == []C27_Results /\ [][C27_Step]_vars

\* a parameter bound to no argument took a number, and then refused a string
Wit_C27_GuardSkipped ==
  /\ prog.name = "UndefThen" /\ Failed /\ GuardError
  /\ Vals[prog.a] = ArkNumber(5) /\ Vals[prog.b] = ArkString("a")
  /\ valRefs[2] = ArkNumber(5)

\* a slot that a step adds to a frame, or gives to a new frame, is a cell
\* that did not exist: it is no cell a closure has captured
C28_Step ==
  \A f \in DOMAIN frames' :
    \A i \in DOMAIN frames'[f].locals :
      (f \notin DOMAIN frames \/ i > Len(frames[f].locals)) =>
        frames'[f].locals[i].id > Len(valRefs)

\* the cell of v, captured by g and s, and the cell of w
OutliveCells == IF prog.name = "OutliveCall" THEN <<3, 4>> ELSE <<2, 3>>

C28_Results ==
  prog.name \in {"OutliveCall", "OutliveLet"} =>
    /\ ~Failed
    /\ (prog.name = "OutliveLet" /\ Len(valRefs) >= 3 /\ Len(frames[1].locals) = 2) =>
         frames[1].locals = <<ArkValRef(1), ArkValRef(3)>>
    /\ Done =>
         /\ Result = Vals[prog.a]
         /\ valRefs[OutliveCells[1]] = Vals[prog.a]
         /\ valRefs[OutliveCells[2]] = Vals[prog.b]
         /\ \A f \in DOMAIN frames :
              \A i \in DOMAIN frames[f].locals :
                frames[f].locals[i].id # OutliveCells[1]

\* C28: A captured reference outlives its slot.  After the let that
\* introduced a variable has trimmed the slot from the frame, and after the
\* call that created the closures has returned, a closure still reads the
\* value set last to the variable; a slot pushed later at the same frame
\* index does not alias it; and of two closures that captured the variable
\* one reads what the other wrote.
Thm_C28_CaptureOutlives == []C28_Results /\ [][C28_Step]_vars

\* v's slot is gone with the call of mk; s wrote 5 to v, g read it, and w,
\* bound after the call, holds its string
Wit_C28_CaptureOutlives ==
  /\ prog.name = "OutliveCall" /\ Done
  /\ Vals[prog.a] = ArkNumber(5) /\ Vals[prog.b] = ArkString("a")
  /\ Result = ArkNumber(5)
  /\ valRefs[3] = ArkNumber(5) /\ valRefs[4] = ArkString("a")
  /\ Len(frames) = 4 /\ frames[2].locals = <<>>

\* C29 as claimed: Let stores the value of initializer i in slot i before
\* it evaluates initializer i + 1, so that a later initializer that reads
\* an earlier bound name by value observes that name's initializer value:
\* let x = a, y = x in y is a.
Cex_C29_LetInitOrder ==
  (prog.name = "LetInitOrder" /\ Done) => Result = Vals[prog.a]

C17_Step ==
  (RuntimeError /\ kont # <<>>) => (ctl' = ctl /\ kont' = Tail(kont))

C17_Results ==
  /\ prog.name \in {"ErrorDeep", "InvalidCall"} =>
       /\ ~Done
       /\ ctl.m = "throw" => ctl.exc = ArkRuntimeError("Invalid call", "")
  /\ prog.name = "PropNonObject" =>
       /\ ~Done
       /\ Failed => ctl.exc = ArkRuntimeError("Attempt to read property of non-object", "")

\* C17: An ArkRuntimeError raised during evaluation is caught by no
\* construct of the evaluator (ArkSequence, ArkLet, ArkLoop, ArkIf, ArkAnd,
\* ArkOr, ArkClosure.call): every suspended evaluation hands it on
\* unchanged, and once it is raised ArkState.run never returns a value.
Thm_C17_RuntimeErrorPropagates ==
  /\ []C17_Results
  /\ [][C17_Step]_vars
  /\ [](RuntimeError => []~Done)

Wit_C17_RuntimeErrorPropagates ==
  /\ prog.name = "ErrorDeep" /\ Failed
  /\ ctl.exc = ArkRuntimeError("Invalid call", "")
  /\ Len(frames) = 2 /\ Len(frames[2].locals) = 1

\* a Break, Continue or Return signal is being delivered to a suspended
\* evaluation that is no catch point of it
Uncaught ==
  /\ ctl.m = "throw" /\ IsArkNonLocalReturn(ctl.exc) /\ kont # <<>>
  /\ Head(kont).k # (IF ctl.exc.ty = "ArkReturnException" THEN "ArkClosure.call"
                      ELSE "ArkLoop")

C18_Step == Uncaught => (ctl' = ctl /\ kont' = Tail(kont))

C18_Results ==
  /\ prog.name \in {"BreakTop", "ContinueTop", "ReturnTop", "BreakInCall"} => ~Done
  /\ (Failed /\ prog.name \in {"BreakTop", "BreakInCall"}) =>
       ctl.exc = ArkBreakException(Vals[prog.a])
  /\ (Failed /\ prog.name = "ContinueTop") => ctl.exc = ArkContinueException
  /\ (Failed /\ prog.name = "ReturnTop") => ctl.exc = ArkReturnException(Vals[prog.a])

\* C18: A Break, Continue or Return signal with no catch point around it
\* (ArkLoop for Break and Continue, ArkClosure.call for Return) is handed on
\* unchanged by every suspended evaluation and leaves ArkState.run as a
\* failure; run never turns it into a returned value.
Thm_C18_UncaughtSignal ==
  /\ []C18_Results
  /\ [][C18_Step]_vars
  /\ []((Uncaught /\ \A i \in DOMAIN kont :
                       kont[i].k \notin {"ArkLoop", "ArkClosure.call"}) => []~Done)

Wit_C18_UncaughtSignal ==
  /\ prog.name = "BreakInCall" /\ Failed
  /\ Vals[prog.a] # ArkNull /\ ctl.exc = ArkBreakException(Vals[prog.a])

\* a Break or Continue signal is being delivered to a suspended evaluation
LoopSignal ==
  /\ ctl.m = "throw" /\ kont # <<>>
  /\ ctl.exc.ty \in {"ArkBreakException", "ArkContinueException"}

C35_Step ==
  LoopSignal =>
    IF Head(kont).k = "ArkLoop"
    THEN IF ctl.exc.ty = "ArkBreakException"
         THEN ctl' = Ret(ctl.exc.val) /\ kont' = Tail(kont) /\ frames' = frames
         ELSE /\ ctl' = Eval(Head(kont).node.body, Head(kont).ark)
              /\ kont' = kont /\ frames' = frames
    ELSE /\ ctl' = ctl /\ kont' = Tail(kont)
         /\ IF Head(kont).k = "ArkLet.body"
            THEN /\ Len(frames'[Head(kont).ark].locals)
                      = Len(frames[Head(kont).ark].locals) - Head(kont).nLets
                 /\ \A ark \in DOMAIN frames \ {Head(kont).ark} : frames'[ark] = frames[ark]
            ELSE frames' = frames

C35_Results ==
  /\ prog.name \in {"BreakCall", "ContinueCall"} => ~Failed
  /\ (Done /\ prog.name \in {"BreakCall", "ContinueCall"}) =>
       (Result = Vals[prog.a] /\ frames[1].locals = <<>>)
  \* the signal has left the call and the let of the caller: the loop gets
  \* it with the caller's locals as they were when the loop began
  /\ (LoopSignal /\ Head(kont).k = "ArkLoop" /\ prog.name = "BreakCall") =>
       Len(frames[1].locals) = 1
  /\ (LoopSignal /\ Head(kont).k = "ArkLoop" /\ prog.name = "ContinueCall") =>
       Len(frames[1].locals) = 2

C19_Step ==
  /\ (Evaluating("ArkAnd") \/ Evaluating("ArkOr")) =>
       /\ ctl' = Eval(ctl.node.left, ctl.ark)
       /\ Head(kont').k = ctl.node.k /\ Tail(kont') = kont
  /\ Returning("ArkAnd") =>
       /\ kont' = Tail(kont)
       /\ ctl' = IF toJs(ctl.val) THEN Eval(Head(kont).node.right, Head(kont).ark)
                 ELSE Ret(ctl.val)
  /\ Returning("ArkOr") =>
       /\ kont' = Tail(kont)
       /\ ctl' = IF toJs(ctl.val) THEN Ret(ctl.val)
                 ELSE Eval(Head(kont).node.right, Head(kont).ark)

\* m and n tell whether the left and the right operand have been evaluated
C19_Results ==
  prog.name \in {"AndEffect", "OrEffect"} =>
    LET right == IF prog.name = "AndEffect" THEN toJs(Vals[prog.a]) ELSE ~toJs(Vals[prog.a])
    IN /\ ~Failed
       /\ Len(valRefs) = 2 => (valRefs[2] = ArkBoolean(TRUE) => right)
       /\ Done =>
            /\ valRefs[1] = ArkBoolean(TRUE)
            /\ valRefs[2] = ArkBoolean(right)
            /\ Result = IF right THEN Vals[prog.b] ELSE Vals[prog.a]

\* C19: And/Or short-circuit.  ArkAnd and ArkOr evaluate the left operand
\* first and once.  ArkAnd then evaluates the right operand, whose value is
\* its value, if and only if the left value is truthy, and otherwise
\* returns the left value; ArkOr evaluates the right operand if and only if
\* the left value is falsy, and otherwise returns the left value.
Thm_C19_ShortCircuit == []C19_Results /\ [][C19_Step]_vars

Wit_C19_ShortCircuit ==
  /\ prog.name = "AndEffect" /\ Done
  /\ Vals[prog.a] = ArkNumber(0) /\ Vals[prog.b] = ArkString("a")
  /\ Result = ArkNumber(0) /\ valRefs = <<ArkBoolean(TRUE), ArkBoolean(FALSE)>>

\* the sequence being evaluated starts with its first child; the value of
\* child n is followed by child n + 1, and the value of the last child is
\* the value of the sequence; an exception of a child ends the sequence
C23_Step ==
  /\ Evaluating("ArkSequence") =>
       /\ ctl' = Eval(ctl.node.exps[1], ctl.ark)
       /\ Head(kont') = [k |-> "ArkSequence", node |-> ctl.node, ark |-> ctl.ark, n |-> 1]
       /\ Tail(kont') = kont
  /\ Returning("ArkSequence") =>
       LET seq == Head(kont)
       IN IF seq.n < Len(seq.node.exps)
          THEN /\ ctl' = Eval(seq.node.exps[seq.n + 1], seq.ark)
               /\ kont' = <<[seq EXCEPT !.n = @ + 1]>> \o Tail(kont)
          ELSE /\ ctl' = Ret(ctl.val)
               /\ kont' = Tail(kont)
  /\ Throwing("ArkSequence") =>
       /\ ctl' = ctl
       /\ kont' = Tail(kont)
  /\ (Evaluating("ArkSequence") \/ Returning("ArkSequence") \/ Throwing("ArkSequence")) =>
       UNCHANGED <<frames, valRefs, objects>>

\* x and y tell which children were evaluated, and in which order
C23_Results ==
  /\ prog.name = "SeqOrder" =>
       /\ ~Failed
       /\ Len(valRefs) = 2 =>
            (valRefs[2] \notin {ArkUndefined, ArkNull} => valRefs[1] = Vals[prog.a])
       /\ Done => (Result = Vals[prog.b] /\ valRefs = <<Vals[prog.a], Vals[prog.a]>>)
  /\ prog.name = "SeqSignal" =>
       /\ ~Failed
       /\ Len(valRefs) = 1 => valRefs[1] \in {ArkUndefined, ArkNull, Vals[prog.a]}
       /\ Done => (Result = Vals[prog.a] /\ valRefs = <<Vals[prog.a]>>)

\* C23: ArkSequence evaluates its children strictly in order, each at most
\* once; its result is the value of the last child; when a child raises an
\* error or a signal, no later child is evaluated.
Thm_C23_SequenceOrder == []C23_Results /\ [][C23_Step]_vars

\* the break in the second child ended the sequence before the third
Wit_C23_SequenceOrder ==
  /\ prog.name = "SeqSignal" /\ Done
  /\ Vals[prog.a] = ArkNumber(5) /\ Vals[prog.b] = ArkString("a")
  /\ Result = ArkNumber(5) /\ valRefs = <<ArkNumber(5)>>

-----------------------------------------------------------------------------
(* The intern table of the scalars (ConcreteInterned) and an ArkMap, under *)
(* the host's garbage collector.  Here a value is an object with an        *)
(* identity, its id in heap.  The program constructs scalars and lists,    *)
(* drops them, and calls the map's natives; the collector may collect any  *)
(* unreachable scalar at any time (its WeakRef then derefs to undefined)   *)
(* and runs the FinalizationRegistry callback of a collected scalar at any *)
(* later time.                                                             *)

\* the raw scalars the program constructs: null, the booleans, a number
Raws == {"null", "false", "true", "1"}

ClassOf(raw) ==
  CASE raw = "null" -> "ArkNullVal"
    [] raw \in {"false", "true"} -> "ArkBooleanVal"
    [] OTHER -> "ArkNumberVal"

IsScalar(id) == heap[id].cls # "ArkList"

\* ConcreteInterned.value finds a live value: not (ref === undefined ||
\* ref.deref() === undefined)
ConcreteInterned_hit(rawVal) ==
  rawVal \in DOMAIN intern /\ ~heap[intern[rawVal]].collected

\* ConcreteInterned.value: the value returned, the heap and the table after it
ConcreteInterned_value(rawVal) ==
  IF ConcreteInterned_hit(rawVal) THEN intern[rawVal] ELSE Len(heap) + 1

ConcreteInterned_heap(rawVal) ==
  IF ConcreteInterned_hit(rawVal)
  THEN heap
  ELSE Append(heap, [cls |-> ClassOf(rawVal), raw |-> rawVal, collected |-> FALSE])

ConcreteInterned_intern(rawVal) ==
  IF ConcreteInterned_hit(rawVal) THEN intern ELSE (rawVal :> (Len(heap) + 1)) @@ intern

\* the constructor may run: it finds the value, or the model has room for one more
CanConstruct(rawVal) == ConcreteInterned_hit(rawVal) \/ Len(heap) < MaxHeap

NoOp == [op |-> "none"]

\* ArkNull() / ArkBoolean(b) / ArkNumber(n): the program constructs a scalar
\* and holds it
Construct ==
  \E rawVal \in Raws :
    /\ CanConstruct(rawVal)
    /\ Cardinality(held \cup {ConcreteInterned_value(rawVal)}) <= MaxHeld
    /\ heap' = ConcreteInterned_heap(rawVal)
    /\ intern' = ConcreteInterned_intern(rawVal)
    /\ held' = held \cup {ConcreteInterned_value(rawVal)}
    /\ lastOp' = NoOp
    /\ UNCHANGED <<evalVars, iterVars, typeVars, launchVars, linkVars, pending, map>>

\* new ArkList(list): a list of scalars the program holds
NewList ==
  \E n \in 0..MaxListLen :
    \E list \in [1..n -> {id \in held : IsScalar(id)}] :
      /\ Len(heap) < MaxHeap /\ Cardinality(held) < MaxHeld
      /\ heap' = Append(heap, [cls |-> "ArkList", list |-> list, collected |-> FALSE])
      /\ held' = held \cup {Len(heap) + 1}
      /\ lastOp' = NoOp
      /\ UNCHANGED <<evalVars, iterVars, typeVars, launchVars, linkVars, intern, pending, map>>

\* the program lets go of a value
Drop ==
  \E id \in held :
    /\ held' = held \ {id}
    /\ lastOp' = NoOp
    /\ UNCHANGED <<evalVars, iterVars, typeVars, launchVars, linkVars, heap, intern, pending, map>>

\* the objects the program can still reach
Reachable ==
  LET roots == held \cup DOMAIN map \cup Range(map)
  IN roots \cup UNION {Range(heap[l].list) : l \in {r \in roots : ~IsScalar(r)}}

\* the collector collects an unreachable scalar: its WeakRef is cleared and
\* its FinalizationRegistry callback is due
Collect ==
  \E id \in DOMAIN heap :
    /\ IsScalar(id) /\ ~heap[id].collected /\ id \notin Reachable
    /\ heap' = [heap EXCEPT ![id].collected = TRUE]
    /\ pending' = pending \cup {id}
    /\ lastOp' = NoOp
    /\ UNCHANGED <<evalVars, iterVars, typeVars, launchVars, linkVars, intern, held, map>>

\* the table after the registry's callback (key) => this.intern.delete(key)
registry_callback(key) == [raw \in DOMAIN intern \ {key} |-> intern[raw]]

\* the host runs the callback of a collected scalar, with its raw value
Finalize ==
  \E id \in pending :
    /\ intern' = registry_callback(heap[id].raw)
    /\ pending' = pending \ {id}
    /\ lastOp' = NoOp
    /\ UNCHANGED <<evalVars, iterVars, typeVars, launchVars, linkVars, heap, held, map>>

\* the natives of ArkMap, called with values the program holds; the program
\* lets go of the results of get and has at once
ArkMap_set ==
  \E index \in held, val \in held :
    /\ Cardinality(DOMAIN map \cup {index}) <= MaxMapSize
    /\ map' = (index :> val) @@ map
    /\ lastOp' = NoOp
    /\ UNCHANGED <<evalVars, iterVars, typeVars, launchVars, linkVars, heap, intern, pending, held>>

ArkMap_delete ==
  \E index \in held :
    /\ map' = [key \in DOMAIN map \ {index} |-> map[key]]
    /\ lastOp' = NoOp
    /\ UNCHANGED <<evalVars, iterVars, typeVars, launchVars, linkVars, heap, intern, pending, held>>

\* get: this.map.get(index) ?? ArkNull()
ArkMap_get ==
  \E index \in held :
    IF index \in DOMAIN map
    THEN /\ lastOp' = [op |-> "get", index |-> index, val |-> map[index]]
         /\ UNCHANGED <<evalVars, iterVars, typeVars, launchVars, linkVars, heap, intern, pending, held, map>>
    ELSE /\ CanConstruct("null")
         /\ heap' = ConcreteInterned_heap("null")
         /\ intern' = ConcreteInterned_intern("null")
         /\ lastOp' = [op |-> "get", index |-> index, val |-> ConcreteInterned_value("null")]
         /\ UNCHANGED <<evalVars, iterVars, typeVars, launchVars, linkVars, pending, held, map>>

\* has: ArkBoolean(this.map.has(index))
ArkMap_has ==
  \E index \in held :
    LET rawVal == IF index \in DOMAIN map THEN "true" ELSE "false"
    IN /\ CanConstruct(rawVal)
       /\ heap' = ConcreteInterned_heap(rawVal)
       /\ intern' = ConcreteInterned_intern(rawVal)
       /\ lastOp' = [op |-> "has", index |-> index, val |-> ConcreteInterned_value(rawVal)]
       /\ UNCHANGED <<evalVars, iterVars, typeVars, launchVars, linkVars, pending, held, map>>

\* the evaluator at rest, while the data model is exercised on its own
EvalIdle ==
  /\ prog = Input("none", 1, 1)
  /\ ctl = Ret(ArkNull)
  /\ kont = <<>>
  /\ frames = <<>>
  /\ valRefs = <<>>
  /\ objects = <<>>

InitIntern == EvalIdle /\ InternIdle /\ IterIdle /\ TypeIdle /\ LaunchIdle /\ LinkIdle

NextIntern ==
  \/ Construct
  \/ NewList
  \/ Drop
  \/ Collect
  \/ Finalize
  \/ ArkMap_set
  \/ ArkMap_delete
  \/ ArkMap_get
  \/ ArkMap_has

SpecIntern == InitIntern /\ [][NextIntern]_vars

\* the scalar values that are live: made and not collected
Live == {id \in DOMAIN heap : IsScalar(id) /\ ~heap[id].collected}

\* a step keeps the entry of every live value, and makes a new scalar only
\* for a raw value that has no live value
C34_Step ==
  /\ \A raw \in DOMAIN intern :
       intern[raw] \in Live => (raw \in DOMAIN intern' /\ intern'[raw] = intern[raw])
  /\ (Len(heap') > Len(heap) /\ heap'[Len(heap')].cls # "ArkList") =>
       \A id \in Live : heap[id].raw # heap'[Len(heap')].raw

\* C34 as claimed: whatever the order of constructions, collections and
\* finalizer callbacks, the callback for a collected value never removes
\* the intern-table entry of a different, still live value of the same raw
\* key, so that a construction made while a value of that raw key is live
\* returns that value.
Cex_C34_FinalizerKeepsLive == [][C34_Step]_vars

\* C8 as claimed: any two live scalar values with the same raw value are
\* the identical object; at no point do two distinct live scalar values
\* with the same raw value exist.
Cex_C8_ScalarInterning ==
  \A i, j \in Reachable :
    (IsScalar(i) /\ IsScalar(j) /\ heap[i].raw = heap[j].raw) => i = j

\* the entry of the map whose key is a scalar of the same raw value as index
SameRawKeys(index) ==
  {key \in DOMAIN map : IsScalar(key) /\ heap[key].raw = heap[index].raw}

\* C9 as claimed: map keys compare by identity.  With a List K1 a key of
\* the map, get of a distinct List K2 of equal contents returns Null and has
\* returns false; get and has of a separately constructed scalar with the
\* raw value of a scalar key find that key's entry.
Cex_C9_MapKeyIdentity ==
  lastOp.op \in {"get", "has"} =>
    LET index == lastOp.index
    IN /\ (/\ ~IsScalar(index) /\ index \notin DOMAIN map
           /\ \E key \in DOMAIN map :
                ~IsScalar(key) /\ heap[key].list = heap[index].list) =>
            heap[lastOp.val].raw = (IF lastOp.op = "get" THEN "null" ELSE "false")
       /\ (IsScalar(index) /\ SameRawKeys(index) # {}) =>
            IF lastOp.op = "get"
            THEN \E key \in SameRawKeys(index) : lastOp.val = map[key]
            ELSE heap[lastOp.val].raw = "true"

-----------------------------------------------------------------------------
(* ArkList, ArkStringVal and the callables their iter natives return.  A   *)
(* callable wraps a host generator over the list's array (shared with the  *)
(* list, which push and pop change in place) or over the string.  As in    *)
(* the evaluator, a scalar is here its class and raw value.                *)

\* the host's undefined, which is no ArkVal
JsUndefined == [t |-> "undefined"]

\* the elements of the lists, and the characters of the strings
Elems == <<ArkNumber(1), ArkNumber(2)>>
Chars == <<"a", "b">>

SeqsUpTo(S, n) == UNION {[1..k -> S] : k \in 0..n}

\* A run iterates one container: a list, a map or a string.

\* new ArkList(list)
NewArkList ==
  \E list \in SeqsUpTo(Range(Elems), MaxLen) :
    /\ lists = <<>> /\ maps = <<>> /\ gens = <<>>
    /\ lists' = <<list>>
    /\ UNCHANGED <<evalVars, internVars, typeVars, launchVars, linkVars, maps, gens>>

\* the sequences of distinct keys of at most n entries
KeysUpTo(S, n) ==
  {keys \in SeqsUpTo(S, n) : \A i, j \in DOMAIN keys : keys[i] = keys[j] => i = j}

\* new ArkMap(map): the entries of this.map in insertion order, each <<key, value>>
NewArkMap ==
  \E keys \in KeysUpTo(Range(Elems), MaxMapSize) :
    \E values \in [DOMAIN keys -> Range(Elems)] :
      /\ lists = <<>> /\ maps = <<>> /\ gens = <<>>
      /\ maps' = <<[i \in DOMAIN keys |-> <<keys[i], values[i]>>]>>
      /\ UNCHANGED <<evalVars, internVars, typeVars, launchVars, linkVars, lists, gens>>

\* the callables over list l see that it has changed
Touched(l) ==
  [g \in DOMAIN gens |->
     IF gens[g].kind = "list" /\ gens[g].src = l
     THEN [gens[g] EXCEPT !.clean = FALSE] ELSE gens[g]]

\* push: this.list.push(item)
ArkList_push ==
  \E l \in DOMAIN lists, item \in Range(Elems) :
    /\ Len(lists[l]) < MaxLen
    /\ lists' = [lists EXCEPT ![l] = Append(@, item)]
    /\ gens' = Touched(l)
    /\ UNCHANGED <<evalVars, internVars, typeVars, launchVars, linkVars, maps>>

\* pop: this.list.pop()
ArkList_pop ==
  \E l \in DOMAIN lists :
    /\ lists' = [lists EXCEPT ![l] = SubSeq(@, 1, IF Len(@) > 0 THEN Len(@) - 1 ELSE 0)]
    /\ gens' = Touched(l)
    /\ UNCHANGED <<evalVars, internVars, typeVars, launchVars, linkVars, maps>>

\* a new generator, not yet started
NewGenerator(kind, src, str) ==
  [kind |-> kind, src |-> src, str |-> str, index |-> 0, state |-> "suspended",
   calls |-> 0, last |-> JsUndefined, clean |-> TRUE]

\* iter of ArkList: a new generator over this.list, not yet started
ArkList_iter ==
  \E l \in DOMAIN lists :
    /\ Len(gens) < MaxGens
    /\ gens' = Append(gens, NewGenerator("list", l, <<>>))
    /\ UNCHANGED <<evalVars, internVars, typeVars, launchVars, linkVars, lists, maps>>

\* iter of ArkStringVal: a new generator over this.val
ArkStringVal_iter ==
  \E str \in SeqsUpTo(Range(Chars), MaxLen) :
    /\ lists = <<>> /\ maps = <<>>
    /\ \A g \in DOMAIN gens : gens[g].str = str
    /\ Len(gens) < MaxGens
    /\ gens' = Append(gens, NewGenerator("string", 0, str))
    /\ UNCHANGED <<evalVars, internVars, typeVars, launchVars, linkVars, lists, maps>>

\* iter, keys and values of ArkMap: a new generator over this.map.entries(),
\* this.map.keys() or this.map.values()
ArkMap_generator(kind) ==
  \E m \in DOMAIN maps :
    /\ Len(gens) < MaxGens
    /\ gens' = Append(gens, NewGenerator(kind, m, <<>>))
    /\ UNCHANGED <<evalVars, internVars, typeVars, launchVars, linkVars, lists, maps>>

ArkMap_iter == ArkMap_generator("entries")

ArkMap_keys == ArkMap_generator("keys")

ArkMap_values == ArkMap_generator("values")

\* what the generator iterates: the list's array as it is now, the string's
\* characters as ArkString values, or the map's entries (each a new ArkList
\* of key and value), keys or values
Source(gen) ==
  CASE gen.kind = "list" -> lists[gen.src]
    [] gen.kind = "string" -> [i \in DOMAIN gen.str |-> ArkString(gen.str[i])]
    [] gen.kind = "entries" -> [i \in DOMAIN maps[gen.src] |-> ArkList(maps[gen.src][i])]
    [] gen.kind = "keys" -> [i \in DOMAIN maps[gen.src] |-> maps[gen.src][i][1]]
    [] gen.kind = "values" -> [i \in DOMAIN maps[gen.src] |-> maps[gen.src][i][2]]

\* generator.next(): the generator after it, with the value of the result
\* in last.  A suspended generator yields the next element, or runs to its
\* return ArkNull(); a completed generator's result is {value: undefined}.
generator_next(gen) ==
  IF gen.state = "completed"
  THEN [gen EXCEPT !.last = JsUndefined]
  ELSE IF gen.index < Len(Source(gen))
  THEN [gen EXCEPT !.last = Source(gen)[gen.index + 1], !.index = @ + 1]
  ELSE [gen EXCEPT !.last = ArkNull, !.state = "completed"]

\* the invocation, were one generator kept for each container: every callable
\* over the container of g moves on
Invoke_shared ==
  \E g \in DOMAIN gens :
    /\ gens[g].calls < MaxCalls
    /\ gens' = [h \in DOMAIN gens |->
                 IF h = g THEN [generator_next(gens[h]) EXCEPT !.calls = @ + 1]
                 ELSE IF gens[h].kind = gens[g].kind /\ gens[h].src = gens[g].src
                 THEN [generator_next(gens[h]) EXCEPT !.last = gens[h].last]
                 ELSE gens[h]]
    /\ UNCHANGED <<evalVars, internVars, typeVars, launchVars, linkVars, lists, maps>>

\* the callable returned by iter is invoked: () => generator.next().value
Invoke ==
  \E g \in DOMAIN gens :
    /\ gens[g].calls < MaxCalls
    /\ gens' = [gens EXCEPT ![g] = [generator_next(@) EXCEPT !.calls = @ + 1]]
    /\ UNCHANGED <<evalVars, internVars, typeVars, launchVars, linkVars, lists, maps>>

InitIter == EvalIdle /\ InternIdle /\ IterIdle /\ TypeIdle /\ LaunchIdle /\ LinkIdle

NextIter ==
  \/ NewArkList
  \/ ArkList_push
  \/ ArkList_pop
  \/ ArkList_iter
  \/ ArkStringVal_iter
  \/ NewArkMap
  \/ ArkMap_iter
  \/ ArkMap_keys
  \/ ArkMap_values
  \/ Invoke

SpecIter == InitIter /\ [][NextIter]_vars

\* C10 as claimed: for a List of n elements that is not mutated meanwhile,
\* the callable returned by iter returns the elements in index order on the
\* invocations 1..n and the Null value on every invocation k > n.
Cex_C10_IteratorExhaustion ==
  \A g \in DOMAIN gens :
    (gens[g].kind = "list" /\ gens[g].clean /\ gens[g].calls > 0) =>
      gens[g].last = IF gens[g].calls <= Len(lists[gens[g].src])
                     THEN lists[gens[g].src][gens[g].calls]
                     ELSE ArkNull

\* what the callable returns when it is invoked next
NextValue(gen) == generator_next(gen).last

C11_Results ==
  \A g \in DOMAIN gens :
    (gens[g].clean /\ gens[g].calls \in 1..Len(Source(gens[g]))) =>
      gens[g].last = Source(gens[g])[gens[g].calls]

C11_Step ==
  /\ \A h \in DOMAIN gens :
       (gens'[h].calls = gens[h].calls /\ lists' = lists) =>
         NextValue(gens'[h]) = NextValue(gens[h])
  /\ Len(gens') > Len(gens) =>
       LET new == gens'[Len(gens')]
       IN NextValue(new) = IF Source(new) = <<>> THEN ArkNull ELSE Source(new)[1]

\* C11: Iterator independence.  Each call of iter (for a map also of keys
\* and values) returns a new callable whose first result is the first
\* element of the container, and on an unchanged container the k-th result
\* of a callable is the container's k-th element whatever other callables
\* exist; the invocation of one callable never changes what any other
\* callable returns next.
Thm_C11_IteratorIndependence == []C11_Results /\ [][C11_Step]_vars

Wit_C11_IteratorIndependence ==
  /\ Len(gens) = 2 /\ gens[1].kind = "list" /\ gens[2].kind = "list"
  /\ gens[1].clean /\ Len(lists[1]) = 2 /\ lists[1][1] # lists[1][2]
  /\ gens[1].calls = 2 /\ gens[1].last = lists[1][2]
  /\ gens[2].calls = 1 /\ gens[2].last = lists[1][1]

-----------------------------------------------------------------------------
(* Compiled code with types: the constructors of the typed node classes.   *)
(* A constructor either makes the node or throws; types are objects that   *)
(* are compared by identity.                                               *)

\* the most nodes that are constructed
MaxNodes == 3

\* val.type: the type object of a value, one for each class of values
TypeOf(val) == [type |-> val.t]

\* ArkBoolean(true).type
BooleanType == TypeOf(ArkBoolean(TRUE))

\* the outcome of a constructor call
Constructed(node) == [ok |-> TRUE, node |-> node]
Thrown(message) == [ok |-> FALSE, message |-> message]

\* new ArkLiteral(val)
ArkLiteral_constructor(val) ==
  Constructed([k |-> "ArkLiteral", type |-> TypeOf(val), val |-> val])

\* new ArkIf(cond, thenExp, elseExp) without the check of the condition
ArkIf_constructor_unchecked(cond, thenExp, elseExp) ==
  IF elseExp # NoExp /\ thenExp.type # elseExp.type
  THEN Thrown("Type of 'if' result does not match type of 'else'")
  ELSE Constructed([k |-> "ArkIf", type |-> thenExp.type, cond |-> cond,
                    thenExp |-> thenExp, elseExp |-> elseExp])

\* new ArkIf(cond, thenExp, elseExp)
ArkIf_constructor(cond, thenExp, elseExp) ==
  IF cond.type # BooleanType
  THEN Thrown("Condition of 'if' must be boolean")
  ELSE IF elseExp # NoExp /\ thenExp.type # elseExp.type
  THEN Thrown("Type of 'if' result does not match type of 'else'")
  ELSE Constructed([k |-> "ArkIf", type |-> thenExp.type, cond |-> cond,
                    thenExp |-> thenExp, elseExp |-> elseExp])

\* new ArkAnd(left, right)
ArkAnd_constructor(left, right) ==
  IF left.type # BooleanType \/ right.type # BooleanType
  THEN Thrown("Arguments of 'and' must be boolean")
  ELSE Constructed([k |-> "ArkAnd", type |-> BooleanType, left |-> left, right |-> right])

\* new ArkOr(left, right)
ArkOr_constructor(left, right) ==
  IF left.type # BooleanType \/ right.type # BooleanType
  THEN Thrown("Arguments of 'or' must be boolean")
  ELSE Constructed([k |-> "ArkOr", type |-> BooleanType, left |-> left, right |-> right])

\* the front end calls a constructor: the node joins the nodes made so far,
\* or nothing is made
New(k, args, outcome) ==
  /\ Cardinality(nodes) < MaxNodes
  /\ lastNew' = [k |-> k, args |-> args, outcome |-> outcome]
  /\ nodes' = IF outcome.ok THEN nodes \cup {outcome.node} ELSE nodes
  /\ UNCHANGED <<registry, generics, ofCalls>>
  /\ UNCHANGED <<evalVars, internVars, iterVars, launchVars, linkVars>>

\* the values of the literals
LiteralVals == {ArkBoolean(TRUE), ArkBoolean(FALSE), ArkNumber(0), ArkString("a")}

NewArkLiteral ==
  \E val \in LiteralVals : New("ArkLiteral", <<val>>, ArkLiteral_constructor(val))

NewArkIf ==
  \E cond \in nodes, thenExp \in nodes, elseExp \in nodes \cup {NoExp} :
    New("ArkIf", <<cond, thenExp, elseExp>>, ArkIf_constructor(cond, thenExp, elseExp))

NewArkAnd ==
  \E left \in nodes, right \in nodes :
    New("ArkAnd", <<left, right>>, ArkAnd_constructor(left, right))

NewArkOr ==
  \E left \in nodes, right \in nodes :
    New("ArkOr", <<left, right>>, ArkOr_constructor(left, right))

InitType == EvalIdle /\ InternIdle /\ IterIdle /\ TypeIdle /\ LaunchIdle /\ LinkIdle

NextType ==
  \/ NewArkLiteral
  \/ NewArkIf
  \/ NewArkAnd
  \/ NewArkOr

SpecType == InitType /\ [][NextType]_vars

\* the operands of a node that its constructor requires to be boolean
BooleanOperands(k, args) ==
  CASE k = "ArkIf" -> {args[1]}
    [] k \in {"ArkAnd", "ArkOr"} -> {args[1], args[2]}
    [] OTHER -> {}

\* the operands of a constructed node, as the constructor was given them
Operands(node) ==
  CASE node.k = "ArkIf" -> <<node.cond, node.thenExp, node.elseExp>>
    [] node.k \in {"ArkAnd", "ArkOr"} -> <<node.left, node.right>>
    [] OTHER -> <<>>

\* C20: Construction-time boolean check.  A call of the constructor of
\* ArkIf with a condition whose type is not the boolean type, or of ArkAnd
\* or ArkOr with an operand whose type is not the boolean type, throws and
\* makes no node; hence every ArkIf, ArkAnd and ArkOr node that exists, and
\* so could be evaluated, has boolean operands where the check requires it.
Thm_C20_BooleanCheck ==
  /\ lastNew.k # "none" =>
       ((\E exp \in BooleanOperands(lastNew.k, lastNew.args) : exp.type # BooleanType)
          => ~lastNew.outcome.ok)
  /\ (lastNew.k = "ArkIf" /\ lastNew.args[1].type # BooleanType) =>
       lastNew.outcome = Thrown("Condition of 'if' must be boolean")
  /\ \A node \in nodes :
       \A exp \in BooleanOperands(node.k, Operands(node)) : exp.type = BooleanType

Wit_C20_BooleanCheck ==
  /\ lastNew.k = "ArkIf" /\ lastNew.args[1].type = TypeOf(ArkNumber(0))
  /\ lastNew.args[2].type = BooleanType
  /\ lastNew.outcome = Thrown("Condition of 'if' must be boolean")
  /\ \A node \in nodes : node.k # "ArkIf"

-----------------------------------------------------------------------------
(* Launch and await.  The compiled code has the nodes ArkLaunch(exp) and   *)
(* ArkAwait(exp); their evaluation is described in the design of the       *)
(* evaluator: one cooperative scheduler, launch enqueues a unit of work    *)
(* and hands a pending value to the caller, await is the one suspension    *)
(* point.  A unit is the code left to run, the value it computed last, the *)
(* handles its launches returned and, while it awaits, the handle awaited. *)

\* the longest launched sub-expression
MaxCode == 2

\* the steps of a unit's code
ArkEffect == [k |-> "ArkEffect"]
ArkFail == [k |-> "ArkFail"]
ArkLaunch(exp) == [k |-> "ArkLaunch", exp |-> exp]
\* await of the handle that the unit's n-th launch returned
ArkAwait(n) == [k |-> "ArkAwait", exp |-> n]

\* the pending value a launch hands to its caller
ArkPromise(unit) == [t |-> "ArkPromise", unit |-> unit]

NewUnit(code) ==
  [code |-> code, pc |-> 1, status |-> "ready", val |-> ArkNull,
   handles |-> <<>>, awaiting |-> 0]

\* the step the unit is at
Inst(u) == units[u].code[units[u].pc]

\* the unit has control and has code left
Runs(u, k) ==
  /\ running = u
  /\ units[u].status = "ready"
  /\ units[u].pc <= Len(units[u].code)
  /\ Inst(u).k = k

\* a literal: the unit computes a value
ArkLiteral_step ==
  \E u \in DOMAIN units :
    /\ Runs(u, "ArkLiteral")
    /\ units' = [units EXCEPT ![u].val = Inst(u).val, ![u].pc = @ + 1]
    /\ UNCHANGED <<running, log>>
    /\ UNCHANGED <<evalVars, internVars, iterVars, typeVars, linkVars>>

\* an effect of the unit that the rest of the program can observe
ArkEffect_step ==
  \E u \in DOMAIN units :
    /\ Runs(u, "ArkEffect")
    /\ log' = Append(log, [unit |-> u, pc |-> units[u].pc])
    /\ units' = [units EXCEPT ![u].val = ArkNull, ![u].pc = @ + 1]
    /\ UNCHANGED running
    /\ UNCHANGED <<evalVars, internVars, iterVars, typeVars, linkVars>>

\* a runtime error: the unit fails
ArkFail_step ==
  \E u \in DOMAIN units :
    /\ Runs(u, "ArkFail")
    /\ units' = [units EXCEPT ![u].status = "failed",
                              ![u].val = ArkRuntimeError("Invalid call", ArkNull)]
    /\ running' = 0
    /\ UNCHANGED log
    /\ UNCHANGED <<evalVars, internVars, iterVars, typeVars, linkVars>>

\* launch that gives control to the launched work and makes the caller wait
\* for its turn
ArkLaunch_eval_blocking ==
  \E u \in DOMAIN units :
    /\ Runs(u, "ArkLaunch")
    /\ LET new == Len(units) + 1
       IN /\ units' = Append([units EXCEPT ![u].val = ArkPromise(new),
                                            ![u].handles = Append(@, new),
                                            ![u].pc = @ + 1],
                             NewUnit(Inst(u).exp))
          /\ running' = new
    /\ UNCHANGED log
    /\ UNCHANGED <<evalVars, internVars, iterVars, typeVars, linkVars>>

\* launch: the sub-expression becomes a unit of work of its own, and the
\* caller goes on with the handle
ArkLaunch_eval ==
  \E u \in DOMAIN units :
    /\ Runs(u, "ArkLaunch")
    /\ LET new == Len(units) + 1
       IN units' = Append([units EXCEPT ![u].val = ArkPromise(new),
                                         ![u].handles = Append(@, new),
                                         ![u].pc = @ + 1],
                          NewUnit(Inst(u).exp))
    /\ UNCHANGED <<running, log>>
    /\ UNCHANGED <<evalVars, internVars, iterVars, typeVars, linkVars>>

\* await: the unit gives up control until the handle's work has completed
ArkAwait_eval ==
  \E u \in DOMAIN units :
    /\ Runs(u, "ArkAwait")
    /\ units' = [units EXCEPT ![u].status = "waiting",
                              ![u].awaiting = units[u].handles[Inst(u).exp]]
    /\ running' = 0
    /\ UNCHANGED log
    /\ UNCHANGED <<evalVars, internVars, iterVars, typeVars, linkVars>>

\* the unit reaches the end of its code: its work has completed
Complete ==
  \E u \in DOMAIN units :
    /\ running = u
    /\ units[u].status = "ready"
    /\ units[u].pc > Len(units[u].code)
    /\ units' = [units EXCEPT ![u].status = "done"]
    /\ running' = 0
    /\ UNCHANGED log
    /\ UNCHANGED <<evalVars, internVars, iterVars, typeVars, linkVars>>

\* a handle whatever the state of its work
Settled_always(h) == TRUE

\* the handle's work has completed, with a result or with a failure
Settled(h) == units[h].status \in {"done", "failed"}

\* the scheduler gives control to a unit that awaits a settled handle: the
\* await yields the result, or the unit fails with the failure
Resume ==
  \E u \in DOMAIN units :
    /\ running = 0
    /\ units[u].status = "waiting"
    /\ Settled(units[u].awaiting)
    /\ LET work == units[units[u].awaiting]
       IN IF work.status = "failed"
          THEN /\ units' = [units EXCEPT ![u].status = "failed", ![u].val = work.val]
               /\ running' = 0
          ELSE /\ units' = [units EXCEPT ![u].status = "ready", ![u].val = work.val,
                                         ![u].pc = @ + 1]
               /\ running' = u
    /\ UNCHANGED log
    /\ UNCHANGED <<evalVars, internVars, iterVars, typeVars, linkVars>>

\* the scheduler gives control to a unit that has not started or was not
\* suspended
Schedule ==
  \E u \in DOMAIN units :
    /\ running = 0
    /\ units[u].status = "ready"
    /\ running' = u
    /\ UNCHANGED <<units, log>>
    /\ UNCHANGED <<evalVars, internVars, iterVars, typeVars, linkVars>>

\* the launched sub-expressions: what a unit does without launching
Steps == {ArkEffect, ArkFail, ArkLiteral(ArkNumber(0)), ArkLiteral(ArkNumber(5))}

Codes(n) == UNION {[1..m -> Steps] : m \in 0..n}

\* the programs that are run: one launch between two effects, awaited or
\* not; two launches awaited in either order; a launch within launched work
LaunchPrograms ==
  {<<ArkEffect, ArkLaunch(a), ArkEffect, ArkAwait(1), ArkEffect>> : a \in Codes(MaxCode)}
  \cup {<<ArkEffect, ArkLaunch(a), ArkEffect>> : a \in Codes(MaxCode)}
  \cup {<<ArkLaunch(a), ArkLaunch(b), ArkAwait(2), ArkAwait(1)>> :
          a \in Codes(1), b \in Codes(1)}
  \cup {<<ArkLaunch(a), ArkLaunch(b), ArkAwait(1), ArkEffect, ArkAwait(2)>> :
          a \in Codes(1), b \in Codes(1)}
  \cup {<<ArkEffect, ArkLaunch(<<ArkEffect, ArkLaunch(a), ArkEffect, ArkAwait(1)>>),
          ArkEffect, ArkAwait(1)>> : a \in Codes(1)}

InitLaunch ==
  /\ EvalIdle /\ InternIdle /\ IterIdle /\ TypeIdle /\ LinkIdle
  /\ units \in {<<NewUnit(code)>> : code \in LaunchPrograms}
  /\ running = 1
  /\ log = <<>>

NextLaunch ==
  \/ ArkLiteral_step
  \/ ArkEffect_step
  \/ ArkFail_step
  \/ ArkLaunch_eval
  \/ ArkAwait_eval
  \/ Complete
  \/ Resume
  \/ Schedule

SpecLaunch == InitLaunch /\ [][NextLaunch]_vars

\* the place in the code of unit u of its n-th launch
LaunchPc(u, n) ==
  CHOOSE pc \in DOMAIN units[u].code :
    /\ units[u].code[pc].k = "ArkLaunch"
    /\ Cardinality({q \in 1..pc : units[u].code[q].k = "ArkLaunch"}) = n

\* the units launched by the units of S
Launched(S) == UNION {Range(units[u].handles) : u \in S}

\* the launched work: the unit and the units launched within it
Work(c) == {c} \cup Launched({c}) \cup Launched(Launched({c}))

\* when the launched work has made an effect, every effect of the launcher's
\* code before the launch was made earlier
C21_Results ==
  \A p \in DOMAIN units : \A n \in DOMAIN units[p].handles :
    \A i \in DOMAIN log :
      log[i].unit \in Work(units[p].handles[n]) =>
        \A pc \in 1..(LaunchPc(p, n) - 1) :
          units[p].code[pc].k = "ArkEffect" =>
            \E j \in 1..(i - 1) : log[j] = [unit |-> p, pc |-> pc]

\* the step of a launch leaves control with the caller, which has the
\* handle and goes on; nothing of the launched sub-expression has run
C21_Step ==
  \A u \in DOMAIN units :
    Runs(u, "ArkLaunch") =>
      LET new == Len(units) + 1
      IN /\ running' = u
         /\ Len(units') = new
         /\ units'[u] = [units[u] EXCEPT !.val = ArkPromise(new),
                                         !.handles = Append(@, new),
                                         !.pc = @ + 1]
         /\ units'[new] = NewUnit(Inst(u).exp)
         /\ log' = log

\* C21: Launch ordering.  Evaluating a launch returns a handle to the
\* caller at once, without waiting for the launched sub-expression, and
\* every effect of the code evaluated before the launch happens before any
\* effect of the launched work.
Thm_C21_LaunchOrdering == []C21_Results /\ [][C21_Step]_vars

\* the caller made an effect, launched, went on to its next effect with the
\* handle, and the launched work made an effect afterwards
Wit_C21_LaunchOrdering ==
  /\ Len(log) >= 3
  /\ log[1] = [unit |-> 1, pc |-> 1]
  /\ log[2] = [unit |-> 1, pc |-> 3]
  /\ log[3].unit = 2
  /\ units[1].handles = <<2>>

\* a unit is done when all its code has run
C22_Results ==
  \A u \in DOMAIN units : units[u].status = "done" => units[u].pc > Len(units[u].code)

\* a unit leaves its await only when the work of the handle is done or has
\* failed: it goes on with the result, or fails with the failure
C22_Step ==
  \A u \in DOMAIN units :
    (units[u].status = "waiting" /\ units'[u].status # "waiting") =>
      LET work == units[units[u].awaiting]
      IN /\ work.status \in {"done", "failed"}
         /\ work.status = "done" =>
              units'[u] = [units[u] EXCEPT !.status = "ready", !.val = work.val,
                                           !.pc = @ + 1]
         /\ work.status = "failed" =>
              units'[u] = [units[u] EXCEPT !.status = "failed", !.val = work.val]

\* C22: Await completion.  An await on a launch handle resumes only after
\* the launched work has completed; it then yields that work's result
\* value, or fails with that work's failure.
Thm_C22_AwaitCompletion == []C22_Results /\ [][C22_Step]_vars

\* the run awaited its first launch, got the result 5 and made an effect,
\* then awaited its second launch and failed with that work's failure
Wit_C22_AwaitCompletion ==
  /\ Len(units) = 3
  /\ units[2].status = "done" /\ units[2].val = ArkNumber(5)
  /\ \E i \in DOMAIN log : log[i] = [unit |-> 1, pc |-> 4]
  /\ units[3].status = "failed"
  /\ units[1].status = "failed" /\ units[1].awaiting = 3
  /\ units[1].val = units[3].val

-----------------------------------------------------------------------------
(* ArkState.run of the first interpreter (ark/interp.ts): link the         *)
(* compiled value against a namespace, then evaluate it on a new stack.    *)
(* A CompiledArk is the pair of a value and its free variables: for each   *)
(* free name, the SymRef objects in the value that stand for it.  The      *)
(* value is the SymRefs it evaluates, in the order it evaluates them.      *)

\* the most free-variable names of a compiled value
MaxNames == 2
\* the most SymRefs of one name
MaxUses == 2

\* the names a compiled value may leave free
Names == {"pos", "neg", "f"}

\* what the namespace binds a name to
NativeFn(name) == [t |-> "NativeFn", name |-> name]

ValRef(val) == [t |-> "ValRef", val |-> val]
StackRef(level, index) == [t |-> "StackRef", level |-> level, index |-> index]

\* the sequences of distinct names of length n
NameLists(n) == {l \in [1..n -> Names] : \A i, j \in 1..n : l[i] = l[j] => i = j}

\* the SymRef ids of entry i when the entries have uses[1], uses[2], ... SymRefs
RECURSIVE UsesBefore(_, _)
UsesBefore(uses, i) == IF i = 1 THEN 0 ELSE UsesBefore(uses, i - 1) + uses[i - 1]

\* the free variables: entry i is the i-th name with its SymRefs
FreeVars(names, uses) ==
  [i \in DOMAIN names |->
     [name |-> names[i],
      symrefs |-> [j \in 1..uses[i] |-> UsesBefore(uses, i) + j]]]

\* the compiled values handed to run
CompiledArks ==
  UNION {{[val |-> [j \in 1..UsesBefore(uses, n + 1) |-> j],
           freeVars |-> FreeVars(names, uses)] :
            names \in NameLists(n), uses \in [1..n -> 1..MaxUses]} : n \in 0..MaxNames}

\* the namespaces handed to run
Namespaces == UNION {{[name \in S |-> NativeFn(name)]} : S \in SUBSET Names}

\* ArkState.run(compiledVal, env): the call of link
ArkState_run ==
  /\ run.at = "run"
  /\ run' = [at |-> "link", i |-> 1, evaluated |-> 0]
  /\ UNCHANGED <<compiledVal, env, symrefs, stackVars>>
  /\ UNCHANGED <<evalVars, internVars, iterVars, typeVars, launchVars>>

\* link without the test of env.has(name)
link_unchecked ==
  /\ run.at = "link"
  /\ IF run.i > Len(compiledVal.freeVars)
     THEN /\ run' = [at |-> "eval", i |-> 1, evaluated |-> 0]
          /\ UNCHANGED symrefs
     ELSE LET entry == compiledVal.freeVars[run.i]
              val == IF entry.name \in DOMAIN env THEN env[entry.name] ELSE JsUndefined
          IN /\ symrefs' = [id \in DOMAIN symrefs |->
                              IF id \in Range(entry.symrefs)
                              THEN [ref |-> ValRef(val)]
                              ELSE symrefs[id]]
             /\ run' = [run EXCEPT !.i = @ + 1]
  /\ UNCHANGED <<compiledVal, env, stackVars>>
  /\ UNCHANGED <<evalVars, internVars, iterVars, typeVars, launchVars>>

\* link(compiledVal, env): one turn of the loop over the free variables, or
\* the return of the value, which run evaluates on a new stack
link ==
  /\ run.at = "link"
  /\ IF run.i > Len(compiledVal.freeVars)
     THEN /\ run' = [at |-> "eval", i |-> 1, evaluated |-> 0]
          /\ UNCHANGED symrefs
     ELSE LET entry == compiledVal.freeVars[run.i]
          IN IF entry.name \notin DOMAIN env
             THEN /\ run' = [at |-> "thrown", i |-> run.i, evaluated |-> run.evaluated,
                             message |-> "undefined symbol " \o entry.name]
                  /\ UNCHANGED symrefs
             ELSE /\ symrefs' = [id \in DOMAIN symrefs |->
                                   IF id \in Range(entry.symrefs)
                                   THEN [ref |-> ValRef(env[entry.name])]
                                   ELSE symrefs[id]]
                  /\ run' = [run EXCEPT !.i = @ + 1]
  /\ UNCHANGED <<compiledVal, env, stackVars>>
  /\ UNCHANGED <<evalVars, internVars, iterVars, typeVars, launchVars>>

\* SymRef.eval: this.ref!.get(stack).  The stack is new: a ValRef gives its
\* value, any other ref has nothing to read
SymRef_eval ==
  /\ run.at = "eval"
  /\ IF run.i > Len(compiledVal.val)
     THEN run' = [at |-> "returned", i |-> run.i, evaluated |-> run.evaluated]
     ELSE LET ref == symrefs[compiledVal.val[run.i]].ref
          IN IF ref # JsUndefined /\ ref.t = "ValRef"
             THEN run' = [run EXCEPT !.i = @ + 1, !.evaluated = @ + 1]
             ELSE run' = [at |-> "thrown", i |-> run.i, evaluated |-> run.evaluated + 1,
                          message |-> "TypeError"]
  /\ UNCHANGED <<compiledVal, env, symrefs, stackVars>>
  /\ UNCHANGED <<evalVars, internVars, iterVars, typeVars, launchVars>>

\* the compiled value as the compiler leaves it: the ref of a SymRef is
\* what the compiler's environment gave, a stack location or nothing
InitLink ==
  /\ EvalIdle /\ InternIdle /\ IterIdle /\ TypeIdle /\ LaunchIdle /\ StackIdle
  /\ compiledVal \in CompiledArks
  /\ env \in Namespaces
  /\ symrefs \in [DOMAIN compiledVal.val -> {[ref |-> JsUndefined], [ref |-> StackRef(1, 0)]}]
  /\ run = [at |-> "run", i |-> 0, evaluated |-> 0]

NextLink ==
  \/ ArkState_run
  \/ link
  \/ SymRef_eval

SpecLink == InitLink /\ [][NextLink]_vars

\* the free-variable names that the namespace does not have
Absent == {name \in {compiledVal.freeVars[i].name : i \in DOMAIN compiledVal.freeVars} :
             name \notin DOMAIN env}

\* C24: Link-time symbol resolution.  When a free-variable name of the
\* compiled value is absent from the environment, link does not return: it
\* fails with 'undefined symbol <name>' for an absent name, and run
\* evaluates nothing.  When every name is present, every SymRef of every
\* free variable has a ref, to the environment's value of its name, before
\* the evaluation begins.
Thm_C24_LinkResolution ==
  /\ Absent # {} =>
       /\ run.at \in {"run", "link", "thrown"}
       /\ run.evaluated = 0
       /\ run.at = "link" =>
            \E i \in run.i..Len(compiledVal.freeVars) :
              compiledVal.freeVars[i].name \in Absent
       /\ run.at = "thrown" =>
            \E name \in Absent : run.message = "undefined symbol " \o name
  /\ (Absent = {} /\ run.at \in {"eval", "returned", "thrown"}) =>
       /\ \A i \in DOMAIN compiledVal.freeVars :
            \A id \in Range(compiledVal.freeVars[i].symrefs) :
              /\ symrefs[id].ref # JsUndefined
              /\ symrefs[id].ref = ValRef(env[compiledVal.freeVars[i].name])
       /\ run.at # "thrown"

\* the second of two names is absent: link has given the SymRef of the
\* first its ref and has failed on the second
Wit_C24_LinkResolution ==
  /\ Len(compiledVal.freeVars) = 2
  /\ compiledVal.freeVars[1].name = "pos" /\ compiledVal.freeVars[2].name = "f"
  /\ DOMAIN env = {"pos", "neg"}
  /\ run.at = "thrown" /\ run.message = "undefined symbol f"
  /\ symrefs[1].ref = ValRef(NativeFn("pos"))

-----------------------------------------------------------------------------
(* Iteration of a container that changes meanwhile.  The generators of     *)
(* iter, keys and values walk the host's live iterator of this.list or     *)
(* this.map: an entry deleted from a Map leaves the iterators that have    *)
(* passed it one entry further back, and an entry set anew is appended,    *)
(* ahead of every iterator that has not completed.                         *)

\* the place of key among the entries, 0 when the map has no such key
EntryOf(entries, key) ==
  IF \E i \in DOMAIN entries : entries[i][1] = key
  THEN CHOOSE i \in DOMAIN entries : entries[i][1] = key
  ELSE 0

\* the entries without the one at place p
WithoutEntry(entries, p) ==
  [i \in 1..(Len(entries) - 1) |-> IF i < p THEN entries[i] ELSE entries[i + 1]]

\* set of ArkMap: this.map.set(index, val)
ArkMap_map_set ==
  \E m \in DOMAIN maps, index \in Range(Elems), val \in Range(Elems) :
    LET p == EntryOf(maps[m], index)
    IN /\ p = 0 => Len(maps[m]) < MaxMapSize
       /\ maps' = [maps EXCEPT ![m] = IF p = 0 THEN Append(@, <<index, val>>)
                                       ELSE [@ EXCEPT ![p] = <<index, val>>]]
       /\ gens' = [g \in DOMAIN gens |->
                     IF gens[g].src = m THEN [gens[g] EXCEPT !.clean = FALSE] ELSE gens[g]]
       /\ UNCHANGED <<evalVars, internVars, typeVars, launchVars, linkVars, lists>>

\* delete of ArkMap: this.map.delete(index)
ArkMap_map_delete ==
  \E m \in DOMAIN maps, index \in Range(Elems) :
    LET p == EntryOf(maps[m], index)
    IN /\ maps' = [maps EXCEPT ![m] = IF p = 0 THEN @ ELSE WithoutEntry(@, p)]
       /\ gens' = [g \in DOMAIN gens |->
                     IF gens[g].src = m
                     THEN [gens[g] EXCEPT !.clean = FALSE,
                                          !.index = IF p # 0 /\ @ >= p THEN @ - 1 ELSE @]
                     ELSE gens[g]]
       /\ UNCHANGED <<evalVars, internVars, typeVars, launchVars, linkVars, lists>>

\* the callable g is invoked; its invocations are counted up to MaxCalls
Invocation(g) ==
  /\ g \in DOMAIN gens
  /\ gens' = [gens EXCEPT ![g] =
                [generator_next(@) EXCEPT !.calls = IF @ < MaxCalls THEN @ + 1 ELSE @]]
  /\ UNCHANGED <<evalVars, internVars, typeVars, launchVars, linkVars, lists, maps>>

\* the callable returned by iter, keys or values is invoked, any number of times
InvokeAgain == \E g \in DOMAIN gens : Invocation(g)

NextLive ==
  \/ NewArkList
  \/ ArkList_push
  \/ ArkList_pop
  \/ ArkList_iter
  \/ ArkStringVal_iter
  \/ NewArkMap
  \/ ArkMap_iter
  \/ ArkMap_keys
  \/ ArkMap_values
  \/ ArkMap_map_set
  \/ ArkMap_map_delete
  \/ InvokeAgain

\* the program goes on invoking every callable it has obtained
SpecLive ==
  /\ InitIter
  /\ [][NextLive]_vars
  /\ \A g \in 1..MaxGens : WF_vars(Invocation(g))

\* C30 as claimed: a callable returned by iter, keys or values that is
\* invoked again and again eventually returns Null, whatever operations on
\* the container come between the invocations.
Cex_C30_FiniteSequences ==
  \A g \in 1..MaxGens :
    (g \in DOMAIN gens /\ gens[g].state # "completed")
      ~> (g \in DOMAIN gens /\ gens[g].last = ArkNull)

-----------------------------------------------------------------------------
(* Generic types.  ArkGenericType.of keeps a registry of the types it has  *)
(* made, keyed by the key object that keyalesce gives for the constructor  *)
(* and the parameter types.  A type object is known by its identity: a     *)
(* plain type by the class of values it belongs to, a generic type by the  *)
(* order in which it was made.                                             *)

\* the most parameter types of a generic type
MaxParams == 1
\* the most calls of ArkGenericType.of
MaxOf == 3

\* keyalesce(values), were a new key object made on every call
keyalesce_fresh(values) == [values |-> values, call |-> Len(ofCalls) + 1]

\* keyalesce(values): one and the same key object for the same sequence of
\* values, which the registry keeps reachable from then on
keyalesce(values) == [values |-> values]

\* map.get(key) and map.set(key, val) of a host Map
Map_get(entries, key) ==
  IF \E e \in entries : e.key = key
  THEN (CHOOSE e \in entries : e.key = key).val
  ELSE JsUndefined
Map_set(entries, key, val) ==
  {e \in entries : e.key # key} \cup {[key |-> key, val |-> val]}

\* ArkGenericType.of(cls, params): the type returned, and the registry and
\* the type objects as the call leaves them
ArkGenericType_of(cls, params) ==
  LET key == keyalesce(<<cls>> \o params)
      type == Map_get(registry, key)
      new == [type |-> "ArkGenericType", id |-> Len(generics) + 1]
  IN IF type = JsUndefined
     THEN [type |-> new,
           generics |-> Append(generics, [params |-> params]),
           registry |-> Map_set(registry, key, new)]
     ELSE [type |-> type, generics |-> generics, registry |-> registry]

\* a call of ArkGenericType.of takes effect
Of(cls, params) ==
  /\ Len(ofCalls) < MaxOf
  /\ LET made == ArkGenericType_of(cls, params)
     IN /\ registry' = made.registry
        /\ generics' = made.generics
        /\ ofCalls' = Append(ofCalls, [cls |-> cls, params |-> params, type |-> made.type])

\* new ArkTypedId(name, type)
ArkTypedId(name, type) == [name |-> name, type |-> type]

\* [...params.map((p) => p.type), returnType]
CallableParams(params, returnType) ==
  [i \in DOMAIN params |-> params[i].type] \o <<returnType>>

\* new ArkFnType(isGenerator, params, returnType): the type of its property
\* call is the generic type of the callables of that signature
ArkFnType(isGenerator, params, returnType) ==
  [type |-> "ArkFnType", isGenerator |-> isGenerator, params |-> params,
   returnType |-> returnType,
   call |-> ArkGenericType_of("ArkCallable", CallableParams(params, returnType)).type]

\* the type objects there are
Types ==
  {TypeOf(ArkNumber(0)), BooleanType}
    \cup {[type |-> "ArkGenericType", id |-> i] : i \in DOMAIN generics}

\* the classes of values that generic types are made for
Classes == {"ArkCallable", "ArkList"}

ArkGenericType_of_call ==
  \E cls \in Classes, params \in SeqsUpTo(Types, MaxParams) :
    /\ Of(cls, params)
    /\ UNCHANGED <<nodes, lastNew>>
    /\ UNCHANGED <<evalVars, internVars, iterVars, launchVars, linkVars>>

NewArkFnType ==
  \E types \in SeqsUpTo(Types, MaxParams - 1), returnType \in Types :
    LET params == [i \in DOMAIN types |-> ArkTypedId("x", types[i])]
    IN /\ Of("ArkCallable", CallableParams(params, returnType))
       /\ UNCHANGED <<nodes, lastNew>>
       /\ UNCHANGED <<evalVars, internVars, iterVars, launchVars, linkVars>>

NextGeneric == ArkGenericType_of_call \/ NewArkFnType

SpecGeneric == InitType /\ [][NextGeneric]_vars

-----------------------------------------------------------------------------
(* The type every node carries: the constructors of the other node         *)
(* classes.  Each passes to the constructor of ArkExp the type it computes *)
(* from its children; reading a property of the host's undefined throws a  *)
(* TypeError and no node is made.                                          *)

\* the most children in a list of children (exps, args)
MaxExps == 2

\* the property of that name of a host object, undefined where it has none
Property(obj, name) == IF name \in DOMAIN obj THEN obj[name] ELSE JsUndefined

\* new ArkSequence(exps)
ArkSequence_constructor(exps) ==
  IF exps = <<>>
  THEN Thrown("TypeError")
  ELSE Constructed([k |-> "ArkSequence", type |-> exps[Len(exps)].type, exps |-> exps])

\* new ArkLet(boundVars, body)
ArkLet_constructor(boundVars, body) ==
  Constructed([k |-> "ArkLet", type |-> body.type, boundVars |-> boundVars, body |-> body])

\* new ArkLocal(index, name, type, isVar)
ArkLocal_constructor(index, name, type, isVar) ==
  Constructed([k |-> "ArkLocal", type |-> type, index |-> index, name |-> name,
               isVar |-> isVar])

\* new ArkSet(lexp, exp)
ArkSet_constructor(lexp, exp) ==
  Constructed([k |-> "ArkSet", type |-> exp.type, lexp |-> lexp, exp |-> exp])

\* new ArkFn(params, capturedVars, body)
ArkFn_constructor(params, capturedVars, body) ==
  Constructed([k |-> "ArkFn", type |-> ArkFnType(FALSE, params, body.type),
               params |-> params, capturedVars |-> capturedVars, body |-> body])

\* new ArkCall(fn, args): fnType.returnType of whatever type fn has
ArkCall_constructor(fn, args) ==
  IF fn.type = JsUndefined
  THEN Thrown("TypeError")
  ELSE Constructed([k |-> "ArkCall", type |-> Property(fn.type, "returnType"),
                    fn |-> fn, args |-> args])

\* new ArkInvoke(obj, prop, args): super() is called without a type
ArkInvoke_constructor(obj, prop, args) ==
  Constructed([k |-> "ArkInvoke", type |-> JsUndefined, obj |-> obj, prop |-> prop,
               args |-> args])

NewArkSequence ==
  \E exps \in SeqsUpTo(nodes, MaxExps) :
    New("ArkSequence", <<exps>>, ArkSequence_constructor(exps))

NewArkLet ==
  \E body \in nodes, inits \in SeqsUpTo(nodes, 1) :
    LET boundVars == [i \in DOMAIN inits |->
                        [name |-> "x", type |-> inits[i].type, isVar |-> TRUE,
                         index |-> i - 1, init |-> inits[i]]]
    IN New("ArkLet", <<boundVars, body>>, ArkLet_constructor(boundVars, body))

NewArkLocal ==
  \E val \in {ArkNumber(0), ArkBoolean(TRUE)} :
    New("ArkLocal", <<0, "x", TypeOf(val), TRUE>>,
        ArkLocal_constructor(0, "x", TypeOf(val), TRUE))

NewArkSet ==
  \E lexp \in {node \in nodes : node.k = "ArkLocal"}, exp \in nodes :
    New("ArkSet", <<lexp, exp>>, ArkSet_constructor(lexp, exp))

\* the constructor of ArkFn makes the ArkFnType, which registers the type
\* of the callables of that signature
NewArkFn ==
  \E body \in nodes :
    LET outcome == ArkFn_constructor(<<>>, <<>>, body)
    IN /\ Cardinality(nodes) < MaxNodes
       /\ lastNew' = [k |-> "ArkFn", args |-> <<<<>>, <<>>, body>>, outcome |-> outcome]
       /\ nodes' = nodes \cup {outcome.node}
       /\ Of("ArkCallable", CallableParams(<<>>, body.type))
       /\ UNCHANGED <<evalVars, internVars, iterVars, launchVars, linkVars>>

NewArkCall ==
  \E fn \in nodes, args \in SeqsUpTo(nodes, 1) :
    New("ArkCall", <<fn, args>>, ArkCall_constructor(fn, args))

NewArkInvoke ==
  \E obj \in nodes :
    New("ArkInvoke", <<obj, "p", <<>>>>, ArkInvoke_constructor(obj, "p", <<>>))

NextExp ==
  \/ NewArkLiteral
  \/ NewArkSequence
  \/ NewArkLet
  \/ NewArkLocal
  \/ NewArkSet
  \/ NewArkFn
  \/ NewArkCall
  \/ NewArkInvoke

SpecExp == InitType /\ [][NextExp]_vars

\* C31 as claimed: every node that was constructed carries a defined type.
Cex_C31_TypedNodes == \A node \in nodes : node.type # JsUndefined

-----------------------------------------------------------------------------
(* The stack of the first interpreter (ark/interp.ts).  A Stack holds an   *)
(* array of frames, a frame is an array of values; arrays and ValRefs are  *)
(* objects, known by their identity, so that what two stacks share is      *)
(* visible.  The array of frames of a Stack is never changed once made.    *)
(* An operation takes the objects there are (h) and gives the objects      *)
(* there are after it, with what it returns.                               *)

\* the most Stack objects that are made
MaxStacks == 3
\* the most items pushed at once
MaxItems == 1
\* the most writes into frames and ValRefs
MaxWrites == 1

\* the values Null() and Num(n), and a ValRef object as a value
Null == [t |-> "Null"]
Num(n) == [t |-> "Num", n |-> n]
ValRefAt(id) == [t |-> "ValRef", id |-> id]

\* the objects there are
Objects == [arrays |-> arrays, refCells |-> refCells, stacks |-> stacks]

\* the objects h and the value a call returned
Returned(h, val) == [h |-> h, returned |-> val]

\* the call leaves the objects h
Leaves(h) ==
  /\ arrays' = h.arrays
  /\ refCells' = h.refCells
  /\ stacks' = h.stacks

\* a new array literal
NewArray(h, elems) ==
  Returned([h EXCEPT !.arrays = Append(@, elems)], Len(h.arrays) + 1)

\* new Stack(outerStack)
Stack_constructor(h, outerStack) ==
  Returned([h EXCEPT !.stacks = Append(@, outerStack)], Len(h.stacks) + 1)

\* new RuntimeStack(): the default argument [[]]
NewRuntimeStack(h) ==
  LET frame == NewArray(h, <<>>)
  IN Stack_constructor(frame.h, <<frame.returned>>)

\* stack.push(items), were every frame of the receiver copied
Stack_push_copies(h, s, items) ==
  LET n == Len(h.stacks[s])
      copies == [l \in 1..n |->
                   IF l = 1 THEN h.arrays[items] \o h.arrays[h.stacks[s][1]]
                   ELSE h.arrays[h.stacks[s][l]]]
  IN Stack_constructor([h EXCEPT !.arrays = @ \o copies],
                       [l \in 1..n |-> Len(h.arrays) + l])

\* stack.push(items): a new Stack whose first frame is a new array, the
\* items followed by the elements of the receiver's first frame, and whose
\* other frames are the receiver's
Stack_push(h, s, items) ==
  LET frame == NewArray(h, h.arrays[items] \o h.arrays[h.stacks[s][1]])
  IN Stack_constructor(frame.h, <<frame.returned>> \o Tail(h.stacks[s]))

\* stack.pushFrame(frame): a new Stack with the array frame before the
\* receiver's frames
Stack_pushFrame(h, s, frame) ==
  Stack_constructor(h, <<frame>> \o h.stacks[s])

\* stack.stack[level][index], undefined where the frame has no such
\* element (levels and indices count from 0)
At(h, s, level, index) ==
  IF level + 1 \in DOMAIN h.stacks[s] /\ index + 1 \in DOMAIN h.arrays[h.stacks[s][level + 1]]
  THEN h.arrays[h.stacks[s][level + 1]][index + 1]
  ELSE JsUndefined

\* StackRef.set(stack, val): stack.stack[this.level][this.index] = val
StackRef_set(h, s, level, index, val) ==
  Returned([h EXCEPT !.arrays[h.stacks[s][level + 1]][index + 1] = val], val)

\* StackRefRef.get(stack): the ValRef at the location gives its value
StackRefRef_get(h, s, level, index) == h.refCells[At(h, s, level, index).id]

\* StackRefRef.set(stack, val): the ValRef at the location takes the value
StackRefRef_set(h, s, level, index, val) ==
  Returned([h EXCEPT !.refCells[At(h, s, level, index).id] = val], val)

\* bindArgsToParams(params, args) for no more arguments than parameters:
\* an array of new ValRefs, one for each parameter, Null() where the
\* argument is missing
bindArgsToParams(h, params, args) ==
  NewArray([h EXCEPT !.refCells =
              @ \o [i \in 1..params |-> IF i \in DOMAIN args THEN args[i] ELSE Null]],
           [i \in 1..params |-> ValRefAt(Len(h.refCells) + i)])

\* the values that are stored
StackVals == {Num(1)}

\* the locations of a stack that hold something
Locations(h, s) ==
  {loc \in (0..(Len(h.stacks[s]) - 1)) \X (0..MaxItems * MaxStacks) :
     At(h, s, loc[1], loc[2]) # JsUndefined}

NewStack ==
  /\ Len(stacks) < MaxStacks
  /\ LET made == NewRuntimeStack(Objects)
     IN /\ Leaves(made.h)
        /\ stackOp' = [op |-> "new", t |-> made.returned, writes |-> stackOp.writes]
  /\ UNCHANGED <<arkStack, ictl, ikont>>
  /\ UNCHANGED <<compiledVal, env, symrefs, run>>
  /\ UNCHANGED <<evalVars, internVars, iterVars, typeVars, launchVars>>

\* the caller binds new ValRefs, as Let.eval does, and pushes them
PushItems ==
  \E s \in DOMAIN stacks, params \in 0..MaxItems :
    /\ Len(stacks) < MaxStacks
    /\ LET items == bindArgsToParams(Objects, params, <<>>)
           made == Stack_push(items.h, s, items.returned)
       IN /\ Leaves(made.h)
          /\ stackOp' = [op |-> "push", s |-> s, items |-> items.h.arrays[items.returned],
                         t |-> made.returned, writes |-> stackOp.writes]
    /\ UNCHANGED <<arkStack, ictl, ikont>>
    /\ UNCHANGED <<compiledVal, env, symrefs, run>>
    /\ UNCHANGED <<evalVars, internVars, iterVars, typeVars, launchVars>>

\* the caller binds new ValRefs to arguments, as Call.eval does, and pushes
\* the frame
PushFrame ==
  \E s \in DOMAIN stacks, args \in SeqsUpTo(StackVals, MaxItems) :
    /\ Len(stacks) < MaxStacks
    /\ LET frame == bindArgsToParams(Objects, Len(args), args)
           made == Stack_pushFrame(frame.h, s, frame.returned)
       IN /\ Leaves(made.h)
          /\ stackOp' = [op |-> "pushFrame", s |-> s, frame |-> frame.returned,
                         t |-> made.returned, writes |-> stackOp.writes]
    /\ UNCHANGED <<arkStack, ictl, ikont>>
    /\ UNCHANGED <<compiledVal, env, symrefs, run>>
    /\ UNCHANGED <<evalVars, internVars, iterVars, typeVars, launchVars>>

\* a write through a StackRef: into a frame
SetStackRef ==
  \E s \in DOMAIN stacks, val \in StackVals :
    \E loc \in Locations(Objects, s) :
      /\ stackOp.writes < MaxWrites
      /\ Leaves(StackRef_set(Objects, s, loc[1], loc[2], val).h)
      /\ stackOp' = [op |-> "StackRef.set", s |-> s, level |-> loc[1],
                     index |-> loc[2], val |-> val, writes |-> stackOp.writes + 1]
      /\ UNCHANGED <<arkStack, ictl, ikont>>
      /\ UNCHANGED <<compiledVal, env, symrefs, run>>
      /\ UNCHANGED <<evalVars, internVars, iterVars, typeVars, launchVars>>

\* a write through a StackRefRef: into the ValRef that a frame holds
SetStackRefRef ==
  \E s \in DOMAIN stacks, val \in StackVals :
    \E loc \in {l \in Locations(Objects, s) : At(Objects, s, l[1], l[2]).t = "ValRef"} :
      /\ stackOp.writes < MaxWrites
      /\ Leaves(StackRefRef_set(Objects, s, loc[1], loc[2], val).h)
      /\ stackOp' = [op |-> "StackRefRef.set", s |-> s, level |-> loc[1],
                     index |-> loc[2], val |-> val, writes |-> stackOp.writes + 1]
      /\ UNCHANGED <<arkStack, ictl, ikont>>
      /\ UNCHANGED <<compiledVal, env, symrefs, run>>
      /\ UNCHANGED <<evalVars, internVars, iterVars, typeVars, launchVars>>

InitStack ==
  /\ EvalIdle /\ InternIdle /\ IterIdle /\ TypeIdle /\ LaunchIdle /\ LinkIdle

NextStack ==
  \/ NewStack
  \/ PushItems
  \/ PushFrame
  \/ SetStackRef
  \/ SetStackRefRef

SpecStack == InitStack /\ [][NextStack]_vars

\* what a location of a stack gives when it is read: the element of the
\* frame, and for a ValRef its value as well
Reads(h, s, level, index) ==
  LET val == At(h, s, level, index)
  IN IF val # JsUndefined /\ val.t = "ValRef"
     THEN <<val, h.refCells[val.id]>>
     ELSE <<val>>

\* the objects after the step
ObjectsAfter == [arrays |-> arrays', refCells |-> refCells', stacks |-> stacks']

\* the frames of every stack that existed, with their elements, are as
\* they were
C33_Unchanged ==
  /\ \A s \in DOMAIN stacks :
       /\ stacks'[s] = stacks[s]
       /\ \A l \in DOMAIN stacks[s] : arrays'[stacks[s][l]] = arrays[stacks[s][l]]
  /\ \A c \in DOMAIN refCells : refCells'[c] = refCells[c]

C33_Step ==
  /\ stackOp'.op = "push" /\ Len(stacks') > Len(stacks) =>
       LET s == stackOp'.s
           t == stackOp'.t
       IN /\ C33_Unchanged
          /\ Len(stacks'[t]) = Len(stacks[s])
          /\ stacks'[t][1] \notin DOMAIN arrays
          /\ arrays'[stacks'[t][1]] = stackOp'.items \o arrays[stacks[s][1]]
          /\ \A l \in 2..Len(stacks[s]) : stacks'[t][l] = stacks[s][l]
  /\ stackOp'.op = "pushFrame" /\ Len(stacks') > Len(stacks) =>
       LET s == stackOp'.s
           t == stackOp'.t
       IN /\ C33_Unchanged
          /\ Len(stacks'[t]) = Len(stacks[s]) + 1
          /\ stacks'[t][1] = stackOp'.frame
          /\ \A l \in 1..Len(stacks[s]) : stacks'[t][l + 1] = stacks[s][l]
  /\ stackOp'.op \in {"StackRef.set", "StackRefRef.set"} /\ stackOp'.writes > stackOp.writes =>
       LET s == stackOp'.s
           level == stackOp'.level
           index == stackOp'.index
       IN \A u \in DOMAIN stacks, l \in 0..MaxStacks, i \in 0..(MaxItems * MaxStacks) :
            \* the same element of a shared frame, or the same ValRef
            (\/ /\ l + 1 \in DOMAIN stacks[u]
                /\ stacks[u][l + 1] = stacks[s][level + 1]
                /\ i = index
             \/ /\ stackOp'.op = "StackRefRef.set"
                /\ At(Objects, u, l, i) = At(Objects, s, level, index))
              => Reads(ObjectsAfter, u, l, i)[Len(Reads(ObjectsAfter, u, l, i))]
                   = stackOp'.val

\* C33: Persistent stack.  Stack.push and Stack.pushFrame return a new
\* Stack and leave the receiver (and every other stack) unchanged: the same
\* number of frames, each frame with the same elements.  The new stack
\* shares the receiver's outer frames: after push every frame but the
\* first is the receiver's frame of that level, after pushFrame frame l + 1
\* is the receiver's frame l.  Hence a write through a ValRef or into a
\* frame that both stacks reach is read through both.
Thm_C33_PersistentStack == [][C33_Step]_vars

\* stack 2 pushed an item onto stack 1, stack 3 pushed a frame onto
\* stack 2; a write through stack 3 into its level 1 is read through
\* stack 2 at level 0, and stack 1 still has its one empty frame
Wit_C33_PersistentStack ==
  /\ Len(stacks) = 3
  /\ Len(stacks[1]) = 1 /\ arrays[stacks[1][1]] = <<>>
  /\ Len(stacks[2]) = 1 /\ Len(arrays[stacks[2][1]]) = 1
  /\ Len(stacks[3]) = 2 /\ stacks[3][2] = stacks[2][1]
  /\ stackOp.op = "StackRef.set" /\ stackOp.s = 3 /\ stackOp.level = 1
  /\ At(Objects, 2, 0, stackOp.index) = stackOp.val

-----------------------------------------------------------------------------
(* The evaluation of the first interpreter (ark/interp.ts) on its stack.   *)
(* eval is an ordinary recursive function: the calls of eval that wait for *)
(* a result are ikont, innermost first, each with the stack ark.stack was  *)
(* when the evaluation it belongs to began.                                *)

\* compiled code: a value that evaluates to itself, Let, Fn, Call
Val(val) == [k |-> "Val", val |-> val]
Let(boundVars, body) == [k |-> "Let", boundVars |-> boundVars, body |-> body]
Fn(params, body) == [k |-> "Fn", params |-> params, body |-> body]
CallOf(fn, args) == [k |-> "Call", fn |-> fn, args |-> args]

\* the intrinsics loop (a NativeFexpr) and break, continue, return (NativeFns)
NativeFexpr(name) == [t |-> "NativeFexpr", name |-> name]
Intrinsic(name) ==
  Val(IF name = "loop" THEN NativeFexpr(name) ELSE NativeFn(name))

\* new FnClosure(params, freeVars, body)
FnClosure(params, freeVars, body) ==
  [t |-> "FnClosure", params |-> params, freeVars |-> freeVars, body |-> body]

\* new BreakException(val), new ContinueException(), new ReturnException(val)
NonLocalReturn(ty, val) == [ty |-> ty, val |-> val]

\* Val.eval: the value itself
Val_eval ==
  /\ ictl.m = "eval" /\ ictl.node.k = "Val"
  /\ ictl' = [m |-> "ret", val |-> ictl.node.val]
  /\ UNCHANGED <<arrays, refCells, stacks, stackOp, arkStack, ikont>>
  /\ UNCHANGED <<compiledVal, env, symrefs, run>>
  /\ UNCHANGED <<evalVars, internVars, iterVars, typeVars, launchVars>>

\* Fn.eval: a closure over the frame that captureFreeVars makes, which is
\* empty for a function without free variables
Fn_eval ==
  /\ ictl.m = "eval" /\ ictl.node.k = "Fn"
  /\ LET frame == NewArray(Objects, <<>>)
     IN /\ Leaves(frame.h)
        /\ ictl' = [m |-> "ret",
                    val |-> FnClosure(ictl.node.params, frame.returned, ictl.node.body)]
  /\ UNCHANGED <<stackOp, arkStack, ikont>>
  /\ UNCHANGED <<compiledVal, env, symrefs, run>>
  /\ UNCHANGED <<evalVars, internVars, iterVars, typeVars, launchVars>>

\* Let.eval: the body on the stack with the new ValRefs pushed, then
\* ark.stack = oldStack
Let_eval ==
  \/ /\ ictl.m = "eval" /\ ictl.node.k = "Let"
     /\ Len(stacks) < MaxStacks
     /\ LET frame == bindArgsToParams(Objects, ictl.node.boundVars, <<>>)
            made == Stack_push(frame.h, arkStack, frame.returned)
        IN /\ Leaves(made.h)
           /\ arkStack' = made.returned
           /\ stackOp' = [op |-> "push", s |-> arkStack,
                          items |-> frame.h.arrays[frame.returned],
                          t |-> made.returned, writes |-> stackOp.writes]
     /\ ictl' = [m |-> "eval", node |-> ictl.node.body]
     /\ ikont' = <<[k |-> "Let.body", oldStack |-> arkStack, began |-> arkStack]>> \o ikont
     /\ UNCHANGED <<compiledVal, env, symrefs, run>>
     /\ UNCHANGED <<evalVars, internVars, iterVars, typeVars, launchVars>>
  \/ /\ ictl.m = "ret" /\ ikont # <<>> /\ Head(ikont).k = "Let.body"
     /\ arkStack' = Head(ikont).oldStack
     /\ ikont' = Tail(ikont)
     /\ UNCHANGED <<arrays, refCells, stacks, stackOp, ictl>>
     /\ UNCHANGED <<compiledVal, env, symrefs, run>>
     /\ UNCHANGED <<evalVars, internVars, iterVars, typeVars, launchVars>>

\* what Call.eval does once it has fn and args: the body of a closure on
\* two new frames, the body of a NativeFn, or the loop intrinsic
Call_apply(fn, args, began, ks) ==
  IF fn.t = "FnClosure"
  THEN /\ Len(stacks) + 2 <= MaxStacks
       /\ LET frame == bindArgsToParams(Objects, fn.params, args)
              outer == Stack_pushFrame(frame.h, arkStack, fn.freeVars)
              made == Stack_pushFrame(outer.h, outer.returned, frame.returned)
          IN /\ Leaves(made.h)
             /\ arkStack' = made.returned
             /\ stackOp' = [op |-> "pushFrame", s |-> outer.returned,
                            frame |-> frame.returned, t |-> made.returned,
                            writes |-> stackOp.writes]
       /\ ictl' = [m |-> "eval", node |-> fn.body]
       /\ ikont' = <<[k |-> "Call.body", oldStack |-> arkStack, began |-> began]>> \o ks
  ELSE IF fn.t = "NativeFn"
  THEN /\ ictl' = [m |-> "throw",
                   exc |-> IF fn.name = "break"
                           THEN NonLocalReturn("BreakException", args[1])
                           ELSE IF fn.name = "return"
                           THEN NonLocalReturn("ReturnException", args[1])
                           ELSE NonLocalReturn("ContinueException", Null)]
       /\ ikont' = ks
       /\ UNCHANGED <<arrays, refCells, stacks, stackOp, arkStack>>
  ELSE /\ ictl' = [m |-> "eval", node |-> args[1]]
       /\ ikont' = <<[k |-> "loop", body |-> args[1], began |-> began]>> \o ks
       /\ UNCHANGED <<arrays, refCells, stacks, stackOp, arkStack>>

\* ark.evaluateArgs(...args): the next argument, or the call itself
ArkState_evaluateArgs(fn, args, evaluated, began, ks) ==
  IF Len(evaluated) < Len(args)
  THEN /\ ictl' = [m |-> "eval", node |-> args[Len(evaluated) + 1]]
       /\ ikont' = <<[k |-> "evaluateArgs", fn |-> fn, args |-> args,
                      evaluated |-> evaluated, began |-> began]>> \o ks
       /\ UNCHANGED <<arrays, refCells, stacks, stackOp, arkStack>>
  ELSE Call_apply(fn, evaluated, began, ks)

\* Call.eval: fn, then the arguments of a closure or a NativeFn, then the
\* call; a ReturnException ends the call of a closure with its value
Call_eval ==
  /\ \/ /\ ictl.m = "eval" /\ ictl.node.k = "Call"
        /\ ictl' = [m |-> "eval", node |-> ictl.node.fn]
        /\ ikont' = <<[k |-> "Call.fn", node |-> ictl.node, began |-> arkStack]>> \o ikont
        /\ UNCHANGED <<arrays, refCells, stacks, stackOp, arkStack>>
     \/ /\ ictl.m = "ret" /\ ikont # <<>> /\ Head(ikont).k = "Call.fn"
        /\ IF ictl.val.t \in {"FnClosure", "NativeFn"}
           THEN ArkState_evaluateArgs(ictl.val, Head(ikont).node.args, <<>>,
                                      Head(ikont).began, Tail(ikont))
           ELSE IF ictl.val.t = "NativeFexpr"
           THEN Call_apply(ictl.val, Head(ikont).node.args, Head(ikont).began, Tail(ikont))
           ELSE /\ ictl' = [m |-> "throw", exc |-> [ty |-> "Error", val |-> Null]]
                /\ ikont' = Tail(ikont)
                /\ UNCHANGED <<arrays, refCells, stacks, stackOp, arkStack>>
     \/ /\ ictl.m = "ret" /\ ikont # <<>> /\ Head(ikont).k = "evaluateArgs"
        /\ ArkState_evaluateArgs(Head(ikont).fn, Head(ikont).args,
                                 Append(Head(ikont).evaluated, ictl.val),
                                 Head(ikont).began, Tail(ikont))
     \/ /\ ictl.m = "ret" /\ ikont # <<>> /\ Head(ikont).k = "Call.body"
        /\ arkStack' = Head(ikont).oldStack
        /\ ikont' = Tail(ikont)
        /\ UNCHANGED <<arrays, refCells, stacks, stackOp, ictl>>
     \/ /\ ictl.m = "throw" /\ ikont # <<>> /\ Head(ikont).k = "Call.body"
        /\ ictl' = IF ictl.exc.ty = "ReturnException"
                   THEN [m |-> "ret", val |-> ictl.exc.val]
                   ELSE ictl
        /\ ikont' = Tail(ikont)
        /\ UNCHANGED <<arrays, refCells, stacks, stackOp, arkStack>>
  /\ UNCHANGED <<compiledVal, env, symrefs, run>>
  /\ UNCHANGED <<evalVars, internVars, iterVars, typeVars, launchVars>>

\* intrinsics.loop: the body again and again; a BreakException ends the
\* loop with its value, a ContinueException starts the next turn
intrinsics_loop ==
  /\ ikont # <<>> /\ Head(ikont).k = "loop"
  /\ \/ /\ ictl.m = "ret"
        /\ ictl' = [m |-> "eval", node |-> Head(ikont).body]
        /\ UNCHANGED ikont
     \/ /\ ictl.m = "throw"
        /\ IF ictl.exc.ty = "BreakException"
           THEN ictl' = [m |-> "ret", val |-> ictl.exc.val] /\ ikont' = Tail(ikont)
           ELSE IF ictl.exc.ty = "ContinueException"
           THEN ictl' = [m |-> "eval", node |-> Head(ikont).body] /\ UNCHANGED ikont
           ELSE UNCHANGED ictl /\ ikont' = Tail(ikont)
  /\ UNCHANGED <<arrays, refCells, stacks, stackOp, arkStack>>
  /\ UNCHANGED <<compiledVal, env, symrefs, run>>
  /\ UNCHANGED <<evalVars, internVars, iterVars, typeVars, launchVars>>

\* an exception leaves a call of eval that has no try around what it waits for
Unwind ==
  /\ ictl.m = "throw" /\ ikont # <<>>
  /\ Head(ikont).k \in {"Let.body", "Call.fn", "evaluateArgs"}
  /\ ikont' = Tail(ikont)
  /\ UNCHANGED <<arrays, refCells, stacks, stackOp, arkStack, ictl>>
  /\ UNCHANGED <<compiledVal, env, symrefs, run>>
  /\ UNCHANGED <<evalVars, internVars, iterVars, typeVars, launchVars>>

\* the compiled values that are run, for a value val:
\*   let x in val
\*   (fn (x) {val})(val)
\*   (fn () {return(val)})()
\*   loop(let x in break(val))
\*   loop((fn () {break(val)})())
\*   (fn () {loop(return(val))})()
ArkPrograms ==
  UNION {{Let(1, Val(val)),
          CallOf(Fn(1, Val(val)), <<Val(val)>>),
          CallOf(Fn(0, CallOf(Intrinsic("return"), <<Val(val)>>)), <<>>),
          CallOf(Intrinsic("loop"), <<Let(1, CallOf(Intrinsic("break"), <<Val(val)>>))>>),
          CallOf(Intrinsic("loop"),
                 <<CallOf(Fn(0, CallOf(Intrinsic("break"), <<Val(val)>>)), <<>>)>>),
          CallOf(Fn(0, CallOf(Intrinsic("loop"),
                              <<CallOf(Intrinsic("return"), <<Val(val)>>)>>)), <<>>)} :
           val \in {Num(0), Num(1)}}
    \cup {CallOf(Intrinsic("loop"),
                 <<CallOf(Intrinsic("loop"), <<CallOf(Intrinsic("continue"), <<>>)>>)>>)}

\* ArkState.run has linked a value without free variables and has made
\* the new RuntimeStack
InitArk ==
  /\ EvalIdle /\ InternIdle /\ IterIdle /\ TypeIdle /\ LaunchIdle
  /\ compiledVal \in {[val |-> val, freeVars |-> <<>>] : val \in ArkPrograms}
  /\ env = [name \in {} |-> ArkNull]
  /\ symrefs = <<>>
  /\ run = [at |-> "eval", i |-> 1, evaluated |-> 0]
  /\ arrays = <<<<>>>>
  /\ refCells = <<>>
  /\ stacks = <<<<1>>>>
  /\ stackOp = [op |-> "new", t |-> 1, writes |-> 0]
  /\ arkStack = 1
  /\ ictl = [m |-> "eval", node |-> compiledVal.val]
  /\ ikont = <<>>

NextArk ==
  \/ Val_eval
  \/ Fn_eval
  \/ Let_eval
  \/ Call_eval
  \/ intrinsics_loop
  \/ Unwind

SpecArk == InitArk /\ [][NextArk]_vars

\* Call.eval, Let.eval or the loop intrinsic returns a value in this step
C36_Returns ==
  /\ ikont # <<>> /\ Head(ikont).k \in {"Call.body", "Let.body", "loop"}
  /\ ictl'.m = "ret" /\ ikont' = Tail(ikont)

\* C36 as claimed: whenever Call.eval, Let.eval or the loop intrinsic
\* returns a value, ark.stack is the stack it was when that evaluation
\* began, also when the value is that of a ReturnException caught by Call
\* or of a BreakException raised inside a Let or a Call of the loop's body.
Cex_C36_StackDiscipline == [][C36_Returns => arkStack' = Head(ikont).began]_vars

====
